---- MODULE Spec2Model ----
(***************************************************************************)
(* ModrSwipe: the vote tally (voteService.calculateResults and the        *)
(* ResultsPage useMemo tally), the retry wrapper (withRetry), the client   *)
(* store (useAppStore) with the SwipePage that feeds it, and the realtime  *)
(* listeners (roomService.onPlayersChanged, modService.onModsChanged)      *)
(* with the Lobby that consumes them, the requests of the room and mod     *)
(* services, and the validation of mod records.                            *)
(*                                                                         *)
(* The specifications share one set of variables:                          *)
(*   SpecResults    the two tallies applied to bounded lists of mods/votes *)
(*   SpecRetry      one withRetry call, split at its two awaits            *)
(*   SpecVotes      the store's mutators driven by SwipePage and callers   *)
(*   SpecStore      the store's mutators called directly                   *)
(*   SpecListeners  the two listeners subscribed by a caller               *)
(*   SpecLobby      the Lobby effect, its listeners and the store          *)
(*   SpecRooms      the room and mod services' requests (createRoom,       *)
(*                  joinRoom, updateRoomStatus, proposeMod)                *)
(*   SpecValidate   validateModData applied to a value and to its result   *)
(* A specification leaves the variables of the other groups at their idle  *)
(* values.                                                                 *)
(***************************************************************************)
EXTENDS Integers, Sequences, FiniteSets, TLC

VARIABLES
    \* --- tally ---
    argMods,        \* the `mods` argument / mods.proposed given to the tally
    argVotes,       \* the `votes` argument / Object.values(votes)
    results,        \* what voteService.calculateResults returned
    calcDone,       \* calculateResults has run
    pageResults,    \* what the ResultsPage useMemo returned
    pageDone,       \* the useMemo has run
    \* --- withRetry ---
    caller,         \* who calls withRetry: a unit test or roomService.createRoom
    config,         \* { ...DEFAULT_RETRY_OPTIONS, ...options }
    attempt,        \* the for loop's counter
    calls,          \* number of times operation() was invoked
    errors,         \* the errors operation() rejected with, in order
    waits,          \* the delays handed to setTimeout, in order
    lastError,      \* withRetry's lastError
    retryPc,        \* "call" | "wait" | "returned" | "thrown"
    outcome,        \* the value returned or the error thrown by withRetry
    \* --- store and SwipePage ---
    user, room, mods, votes, isLoading,   \* the zustand state
    lastCall,       \* the last call made to the store: which mutator, with what kind of argument
    threw,          \* that call threw
    now,            \* Date.now()
    swipeIndex,     \* SwipePage's local currentIndex
    page,           \* "swipe" | "results": where SwipePage navigated to
    \* --- listeners and Lobby ---
    sub,            \* per channel: the subscribe call, what it returned, the listener
    lastDelivery,   \* the last event a listener handled: what it passed on, what escaped
    lobbyPc,        \* "idle" | "mounted" | "unmounted": the Lobby component
    isMounted,      \* the effect's isMounted flag
    thenPending,    \* the effect's Promise.all(...).then has not run yet
    unsubscribePlayers, unsubscribeMods,  \* the effect's variables of these names
    \* --- services and the backend ---
    rooms,          \* Firestore collection 'rooms': room code -> document
    playerEntries,  \* Realtime Database rooms/<code>/players/<id>: the entries written
    modRecords,     \* the mod documents written by proposeMod
    lastRequest,    \* the last service call: which, and the error it rejected with
    location,       \* the path the Lobby navigated to
    modInput,       \* a record given to validateModData
    validations     \* what validateModData did with it, and with its own result

tallyVars == <<argMods, argVotes, results, calcDone, pageResults, pageDone>>
retryVars == <<caller, config, attempt, calls, errors, waits, lastError, retryPc, outcome>>
storeVars == <<user, room, mods, votes, isLoading, lastCall, threw, now, swipeIndex, page>>
lobbyVars ==
    <<sub, lastDelivery, lobbyPc, isMounted, thenPending, unsubscribePlayers, unsubscribeMods>>
serviceVars ==
    <<rooms, playerEntries, modRecords, lastRequest, location, modInput, validations>>
vars == <<tallyVars, retryVars, storeVars, lobbyVars, serviceVars>>

-----------------------------------------------------------------------------
(* Bounds *)

MaxMods == 2          \* longest list of mods given to a tally
MaxBallots == 3       \* longest list of votes given to a tally
MaxAttemptsOpt == 3   \* largest maxAttempts option tried
MaxNow == 2           \* last millisecond the clock reaches
MaxStoredVotes == 2   \* the store's vote map is not grown beyond this
MaxEntries == 2       \* most records in a snapshot a listener is given
MaxUnsubCalls == 2    \* most calls of one unsubscribe function
MaxModRecords == 2    \* proposeMod is not called once this many mods are recorded

-----------------------------------------------------------------------------
(* JavaScript values *)

\* Primitive values are strings of the model; the values that are no
\* JavaScript string are written in angle brackets.
Undefined == "<undefined>"   \* a missing property
Null == "<null>"
JsTrue == "<true>"
JsFalse == "<false>"
NotAString == "<number>"     \* a number where a string or boolean is expected
NonStrings == {Undefined, Null, JsTrue, JsFalse, NotAString}

\* typeof v === 'string'
IsString(v) == v \notin NonStrings

\* typeof v === 'boolean'
IsBoolean(v) == v \in {JsTrue, JsFalse}

\* A value where an array is expected: an array of items, or something else
JsArray(items) == [isArray |-> TRUE, items |-> items]
NotAnArray == [isArray |-> FALSE, items |-> <<>>]

\* Array.isArray(v)
IsArray(v) == v.isArray


SeqsUpTo(S, n) == UNION {[1..k -> S] : k \in 0..n}

Min(a, b) == IF a <= b THEN a ELSE b

-----------------------------------------------------------------------------
(* Mods and votes *)

UserIds == {"u1", "u2"}
ModIds == {"m1", "m2"}
RoomIds == {"r1"}
Decisions == {"like", "dislike"}

\* A Mod as validateModData/isValidMod admit it
Mod(id) ==
    [id |-> id, roomId |-> "r1", name |-> "name", description |-> "desc", proposedBy |-> "u1"]

\* voteService.submitVote's voteId: `${userId}_${modId}`. A template string
\* is the tuple of its parts.
VoteId(userId, modId) == <<userId, "_", modId>>

\* A Vote as voteService.submitVote writes it
Vote(userId, modId, decision) ==
    [id |-> VoteId(userId, modId), roomId |-> "r1", modId |-> modId, userId |-> userId, vote |-> decision]

-----------------------------------------------------------------------------
(* The tally: voteService.calculateResults and the ResultsPage useMemo *)

\* The buckets left in the order filter() gives them, with no sort
SortKeepsOrder(s, k) == s

\* Array.prototype.sort((a, b) => b[k] - a[k]): stable, descending by field k
InsertDesc(x, s, k) ==
    LET p == Cardinality({i \in 1..Len(s) : s[i][k] >= x[k]})
    IN  SubSeq(s, 1, p) \o <<x>> \o SubSeq(s, p + 1, Len(s))

RECURSIVE SortDesc(_, _)
SortDesc(s, k) ==
    IF s = <<>> THEN <<>>
    ELSE InsertDesc(s[Len(s)], SortDesc(SubSeq(s, 1, Len(s) - 1), k), k)

\* Every vote counted for every mod, with no filter on modId
ModVotesOfAnyMod(vs, mod) == vs

\* votes.filter(vote => vote.modId === mod.id)
ModVotes(vs, mod) == SelectSeq(vs, LAMBDA v : v.modId = mod.id)

\* modVotes.filter(vote => vote.vote === d).length
CountDecision(vs, d) == Len(SelectSeq(vs, LAMBDA v : v.vote = d))

\* total > 0 ? (likes / total) * 100 : 0, kept as its integer part: the
\* code only compares it with the integer 50, which the integer part decides
Percentage(likes, total) == IF total > 0 THEN (likes * 100) \div total ELSE 0

\* The record calculateResults builds for one mod (comments left out:
\* no bucket depends on them)
ModResult(vs, mod) ==
    LET modVotes == ModVotes(vs, mod)
        likes == CountDecision(modVotes, "like")
        dislikes == CountDecision(modVotes, "dislike")
        total == likes + dislikes
    IN  [id |-> mod.id, likes |-> likes, dislikes |-> dislikes, total |-> total,
         percentage |-> Percentage(likes, total)]

\* The three filters of calculateResults
IsApproved(r) == r.percentage >= 50

IsRejected(r) == r.percentage < 50

Abs(n) == IF n < 0 THEN 0 - n ELSE n

IsControversial(r) == r.total > 0 /\ Abs(r.likes - r.dislikes) <= 1

\* voteService.calculateResults(mods, votes)
calculateResults(ms, vs) ==
    LET rs == [i \in 1..Len(ms) |-> ModResult(vs, ms[i])]
    IN  [approved |-> SortDesc(SelectSeq(rs, IsApproved), "likes"),
         rejected |-> SortDesc(SelectSeq(rs, IsRejected), "dislikes"),
         controversial |-> SortDesc(SelectSeq(rs, IsControversial), "total")]

\* ResultsPage: the modVotes record after "Initialize vote counts" and
\* "Count votes", as Object.values lists it (insertion order; mod ids are
\* the keys of the store they come from, hence distinct). A vote whose
\* modId is no key is skipped; a vote that is not 'like' counts as a dislike.
PageModVotes(proposed, vs) ==
    [i \in 1..Len(proposed) |->
        LET mine == ModVotes(vs, proposed[i])
        IN  [likes |-> CountDecision(mine, "like"),
             dislikes |-> Len(mine) - CountDecision(mine, "like"),
             mod |-> proposed[i]]]

\* The three filters of the ResultsPage useMemo
\* (a mutant) the room setting votingType = unanimous applied: any dislike vetoes
PageIsApprovedUnanimous(r) == r.likes > 0 /\ r.dislikes = 0
PageIsApproved(r) == r.likes > r.dislikes

PageIsRejected(r) == r.likes < r.dislikes

PageIsControversial(r) == r.likes = r.dislikes

\* ResultsPage: const results = useMemo(...)
ResultsPageTally(proposed, vs) ==
    LET rs == PageModVotes(proposed, vs)
    IN  [approved |-> SortDesc(SelectSeq(rs, PageIsApproved), "likes"),
         rejected |-> SortDesc(SelectSeq(rs, PageIsRejected), "dislikes"),
         controversial |-> SortDesc(SelectSeq(rs, PageIsControversial), "likes")]

NoResults == [approved |-> <<>>, rejected |-> <<>>, controversial |-> <<>>]

\* Lists of mods with distinct ids, lists of votes (a vote may name a mod
\* that is not in the list, and a pair (user, mod) may vote twice)
ModLists ==
    {ms \in SeqsUpTo({Mod(id) : id \in ModIds}, MaxMods) :
        \A i, j \in 1..Len(ms) : ms[i].id = ms[j].id => i = j}
BallotModIds == ModIds \cup {"mX"}
Ballots == {Vote(u, m, d) : u \in UserIds, m \in BallotModIds, d \in Decisions}
BallotLists == SeqsUpTo(Ballots, MaxBallots)

TallyIdle ==
    /\ argMods = <<>> /\ argVotes = <<>>
    /\ results = NoResults /\ calcDone = FALSE
    /\ pageResults = NoResults /\ pageDone = FALSE

InitTally ==
    /\ argMods \in ModLists
    /\ argVotes \in BallotLists
    /\ results = NoResults /\ calcDone = FALSE
    /\ pageResults = NoResults /\ pageDone = FALSE

\* useFirebase.calculateResults / ResultsPage.fetchResults call the service
CalculateResults ==
    /\ ~calcDone
    /\ results' = calculateResults(argMods, argVotes)
    /\ calcDone' = TRUE
    /\ UNCHANGED <<argMods, argVotes, pageResults, pageDone, retryVars, storeVars, lobbyVars, serviceVars>>

\* ResultsPage renders: the useMemo runs on mods.proposed and the votes
ResultsMemo ==
    /\ ~pageDone
    /\ pageResults' = ResultsPageTally(argMods, argVotes)
    /\ pageDone' = TRUE
    /\ UNCHANGED <<argMods, argVotes, results, calcDone, retryVars, storeVars, lobbyVars, serviceVars>>

NextTally == CalculateResults \/ ResultsMemo

-----------------------------------------------------------------------------
(* The retry wrapper: withRetry *)

RetryKeys == {"maxAttempts", "baseDelay", "maxDelay", "backoffFactor", "retryableErrors"}

DEFAULT_RETRY_OPTIONS ==
    [maxAttempts |-> 3, baseDelay |-> 1000, maxDelay |-> 10000, backoffFactor |-> 2,
     retryableErrors |-> {"network-request-failed", "timeout", "unavailable",
                          "deadline-exceeded", "resource-exhausted", "internal", "aborted"}]

\* const config = { ...DEFAULT_RETRY_OPTIONS, ...options }
MergeOptions(options) ==
    [k \in RetryKeys |-> IF k \in DOMAIN options THEN options[k] ELSE DEFAULT_RETRY_OPTIONS[k]]

\* Errors an operation rejects with: the class the error is an instance of
\* and its code property
Err(cls, code) == [cls |-> cls, code |-> code]
NoError == Err(Undefined, Undefined)

\* new FirebaseError(message, code) of utils/validation (the code is optional)
FirebaseErrors ==
    {Err("FirebaseError", c) : c \in {"unavailable", "timeout", "permission-denied", Undefined}}
\* new ValidationError(message): it has a field, no code
ValidationErrors == {Err("ValidationError", Undefined)}
\* What setDoc / set of the Firebase SDK reject with: the SDK's own error
\* class, which carries a code but is no instance of utils/validation's FirebaseError
SdkErrors == {Err("FirestoreError", c) : c \in {"unavailable", "permission-denied"}}

\* The callers of withRetry: a unit test with a mock operation and options,
\* and roomService.createRoom, which passes () => setDoc(...) and no options
Callers == {"test", "createRoom"}

OperationErrors(who) ==
    IF who = "createRoom" THEN SdkErrors ELSE FirebaseErrors \cup ValidationErrors

\* The options a caller passes: any subset of the keys, with these values
OptionValues ==
    [maxAttempts : 1..MaxAttemptsOpt, baseDelay : {10, 5000}, maxDelay : {100},
     backoffFactor : {1, 10},
     retryableErrors : {{}, {"timeout", "permission-denied"}}]

OptionsOf(who) ==
    IF who = "createRoom" THEN {<<>>}
    ELSE {[k \in given |-> vals[k]] : given \in SUBSET RetryKeys, vals \in OptionValues}

\* Math.pow(base, exp) for a non-negative integer exponent
RECURSIVE Pow(_, _)
Pow(base, exp) == IF exp = 0 THEN 1 ELSE base * Pow(base, exp - 1)

\* (a mutant) the exponent counts the failed attempt itself
DelayFromAttempt(c, a) == Min(c.baseDelay * Pow(c.backoffFactor, a), c.maxDelay)
\* const delay = Math.min(baseDelay * Math.pow(backoffFactor, attempt - 1), maxDelay)
Delay(c, a) == Min(c.baseDelay * Pow(c.backoffFactor, a - 1), c.maxDelay)

\* (a mutant) any FirebaseError that carries a code is retried
IsRetryableAnyCode(e, c) == e.cls = "FirebaseError" /\ e.code # Undefined
\* (a mutant) everything is retried except a FirebaseError of another code
IsRetryableUnlessListed(e, c) == e.cls # "FirebaseError" \/ e.code \in c.retryableErrors
\* const isRetryable = error instanceof FirebaseError && error.code &&
\*                     config.retryableErrors.includes(error.code)
IsRetryable(e, c) ==
    /\ e.cls = "FirebaseError"
    /\ e.code # Undefined
    /\ e.code \in c.retryableErrors

\* (a mutant) the loop gives up one attempt early
IsLastAttemptEarly(c, a) == a >= c.maxAttempts - 1
\* if (attempt === config.maxAttempts) break
IsLastAttempt(c, a) == a = c.maxAttempts

Pending == [kind |-> "pending", value |-> Undefined, error |-> NoError]
Returned(v) == [kind |-> "returned", value |-> v, error |-> NoError]
Thrown(e) == [kind |-> "thrown", value |-> Undefined, error |-> e]

RetryIdle ==
    /\ caller = "none" /\ config = DEFAULT_RETRY_OPTIONS /\ attempt = 0 /\ calls = 0
    /\ errors = <<>> /\ waits = <<>> /\ lastError = NoError
    /\ retryPc = "idle" /\ outcome = Pending

\* withRetry(operation, operationName, options) up to its first await
InitRetry ==
    /\ caller \in Callers
    /\ \E options \in OptionsOf(caller) : config = MergeOptions(options)
    /\ attempt = 1 /\ calls = 0
    /\ errors = <<>> /\ waits = <<>> /\ lastError = NoError
    /\ retryPc = "call" /\ outcome = Pending

\* return await operation(): the operation resolves
OperationResolves ==
    /\ retryPc = "call"
    /\ calls' = calls + 1
    /\ outcome' = Returned("success")
    /\ retryPc' = "returned"
    /\ UNCHANGED <<caller, config, attempt, errors, waits, lastError, tallyVars, storeVars, lobbyVars,
                   serviceVars>>

\* await operation() rejects with e: the catch block, up to the throw or
\* up to the await of the timer
OperationRejects(e) ==
    /\ retryPc = "call"
    /\ calls' = calls + 1
    /\ errors' = Append(errors, e)
    /\ lastError' = e
    /\ IF IsLastAttempt(config, attempt)
         THEN \* break, then throw lastError
              /\ outcome' = Thrown(e) /\ retryPc' = "thrown" /\ waits' = waits
         ELSE IF ~IsRetryable(e, config)
         THEN /\ outcome' = Thrown(e) /\ retryPc' = "thrown" /\ waits' = waits
         ELSE /\ waits' = Append(waits, Delay(config, attempt))
              /\ retryPc' = "wait" /\ outcome' = outcome
    /\ UNCHANGED <<caller, config, attempt, tallyVars, storeVars, lobbyVars, serviceVars>>

\* The timer of setTimeout(resolve, delay) fires: attempt++ and the loop test
TimerFires ==
    /\ retryPc = "wait"
    /\ attempt' = attempt + 1
    /\ IF attempt + 1 <= config.maxAttempts
         THEN retryPc' = "call" /\ outcome' = outcome
         ELSE retryPc' = "thrown" /\ outcome' = Thrown(lastError)
    /\ UNCHANGED <<caller, config, calls, errors, waits, lastError, tallyVars, storeVars, lobbyVars, serviceVars>>

NextRetry ==
    \/ OperationResolves
    \/ \E e \in OperationErrors(caller) : OperationRejects(e)
    \/ TimerFires

-----------------------------------------------------------------------------
(* The store: useAppStore *)

\* null where a user, a room, a mod is expected; a value that has none of
\* the properties (a string, a number) where an object is expected
NoUser == [uid |-> Null, nickname |-> Null, isAnonymous |-> Null]
NoRoom == [id |-> Null, hostId |-> Null, isHost |-> Null, players |-> NotAnArray, status |-> Null]
NoMod == [id |-> Null, roomId |-> Null, name |-> Null, description |-> Null, proposedBy |-> Null]
PrimitiveVote ==
    [id |-> Undefined, roomId |-> Undefined, modId |-> Undefined, userId |-> Undefined, vote |-> Undefined]

\* const isValidMod = (mod: any): mod is Mod
isValidMod(mod) ==
    /\ mod # NoMod
    /\ IsString(mod.id)
    /\ IsString(mod.roomId)
    /\ IsString(mod.name)
    /\ IsString(mod.description)
    /\ IsString(mod.proposedBy)

\* const isValidUser = (user: any): user is User
isValidUser(u) ==
    /\ u # NoUser
    /\ IsString(u.uid)
    /\ IsString(u.nickname)
    /\ IsBoolean(u.isAnonymous)

\* isValidRoom without its Array.isArray(room.players)
isValidRoomAnyPlayers(r) ==
    /\ r # NoRoom
    /\ IsString(r.id)
    /\ IsString(r.hostId)
    /\ IsBoolean(r.isHost)
    /\ IsString(r.status)

\* const isValidRoom = (room: any): room is Room
isValidRoom(r) ==
    /\ r # NoRoom
    /\ IsString(r.id)
    /\ IsString(r.hostId)
    /\ IsBoolean(r.isHost)
    /\ IsArray(r.players)
    /\ IsString(r.status)

\* const isValidVote = (vote: any): vote is Vote. An id is a tuple of
\* string parts, or the one-part tuple of a non-string.
isValidVote(v) ==
    /\ ~(Len(v.id) = 1 /\ v.id[1] \in NonStrings)
    /\ IsString(v.roomId)
    /\ IsString(v.modId)
    /\ IsString(v.userId)
    /\ v.vote \in {"like", "dislike"}

\* The store's initial state (and what resetState restores)
InitialMods == [proposed |-> <<>>, current |-> NoMod, currentIndex |-> 0]
InitialLoading == [user |-> FALSE, room |-> FALSE, mods |-> FALSE]
NoVotes == [k \in {} |-> PrimitiveVote]

\* { ...state.votes, [vote.id]: vote }
PutVote(vs, v) == [k \in DOMAIN vs \cup {v.id} |-> IF k = v.id THEN v ELSE vs[k]]

\* addVote(vote): the votes after the call
addVote(vs, v) == IF ~isValidVote(v) THEN vs ELSE PutVote(vs, v)

\* setCurrentMod(current, currentIndex): the mods slice after the call.
\* NaN stands for an index that is not a number or is NaN.
NaN == 0 - 1
setCurrentMod(ms, current, currentIndex) ==
    IF current # NoMod /\ ~isValidMod(current) THEN ms
    ELSE [ms EXCEPT !.current = current,
                    !.currentIndex = IF currentIndex # NaN THEN currentIndex ELSE 0]

\* setMods that stores the array as it is given
setModsUnfiltered(ms, arg) ==
    [ms EXCEPT !.proposed = IF IsArray(arg) THEN arg.items ELSE <<>>]

\* setMods(mods): the mods slice after the call
setMods(ms, arg) ==
    IF ~IsArray(arg) THEN [ms EXCEPT !.proposed = <<>>]
    ELSE [ms EXCEPT !.proposed = SelectSeq(arg.items, isValidMod)]

\* setUser(user): the user after the call (the sanitized copy, or null)
setUser(old, u) ==
    IF u # NoUser /\ ~isValidUser(u) THEN old
    ELSE IF u # NoUser
         THEN [uid |-> u.uid, nickname |-> u.nickname, isAnonymous |-> u.isAnonymous]
         ELSE NoUser

\* setRoom(room): the room after the call
setRoom(old, r) == IF r # NoRoom /\ ~isValidRoom(r) THEN old ELSE r

\* setLoading(key, value): the flags after the call,
\* { ...state.isLoading, [key]: value }
setLoading(flags, key, value) ==
    IF ~IsString(key) \/ ~IsBoolean(value) THEN flags
    ELSE [k \in DOMAIN flags \cup {key} |-> IF k = key THEN value = JsTrue ELSE flags[k]]

\* Reading a property of null throws a TypeError. The type guards are of the
\* form `v && typeof v.f === ...`: a property is read only of a truthy v.
ReadThrows(v, null) == v = null
GuardThrows(v, null) == v # null /\ ReadThrows(v, null)

\* What escapes a mutator: the guard is the only place that reads the
\* argument's properties (setUser reads them again behind `if (user)`)
setUserThrows(u) == u # NoUser /\ GuardThrows(u, NoUser)
setRoomThrows(r) == r # NoRoom /\ GuardThrows(r, NoRoom)
setCurrentModThrows(current) == current # NoMod /\ GuardThrows(current, NoMod)
addVoteThrows(v, null) == GuardThrows(v, null)
setModsThrows(arg) == IsArray(arg) /\ \E i \in 1..Len(arg.items) : GuardThrows(arg.items[i], NoMod)

\* What callers hand to the mutators: null, a valid value, and malformed
\* values: the ones useAppStore.test.ts uses ({ uid: 'test' }, 'invalid') and
\* a valid value with one property missing or of another type
U1 == [uid |-> "u1", nickname |-> "Ann", isAnonymous |-> JsTrue]
PrimitiveUser == [uid |-> Undefined, nickname |-> Undefined, isAnonymous |-> Undefined]
MalformedUsers ==
    {[PrimitiveUser EXCEPT !.uid = "test"], PrimitiveUser}
        \cup {[U1 EXCEPT ![f] = Undefined] : f \in {"uid", "nickname", "isAnonymous"}}
        \cup {[U1 EXCEPT !.isAnonymous = "yes"]}
UserPayloads == {NoUser, U1} \cup MalformedUsers

R1 == [id |-> "r1", hostId |-> "u1", isHost |-> JsTrue, players |-> JsArray(<<>>), status |-> "voting"]
PrimitiveRoom ==
    [id |-> Undefined, hostId |-> Undefined, isHost |-> Undefined, players |-> NotAnArray,
     status |-> Undefined]
MalformedRooms ==
    {[PrimitiveRoom EXCEPT !.id = "room1"], PrimitiveRoom, [R1 EXCEPT !.players = NotAnArray]}
        \cup {[R1 EXCEPT ![f] = Undefined] : f \in {"id", "hostId", "isHost", "status"}}
        \cup {[R1 EXCEPT !.isHost = "yes"]}
RoomPayloads == {NoRoom, R1} \cup MalformedRooms

PrimitiveMod ==
    [id |-> Undefined, roomId |-> Undefined, name |-> Undefined, description |-> Undefined,
     proposedBy |-> Undefined]
BadMod == [Mod("m3") EXCEPT !.name = Undefined]
MalformedMods ==
    {[PrimitiveMod EXCEPT !.id = "mod1"], PrimitiveMod, BadMod}
        \cup {[Mod("m1") EXCEPT ![f] = Undefined] :
                f \in {"id", "roomId", "name", "description", "proposedBy"}}
CurrentPayloads == {NoMod, Mod("m1")} \cup MalformedMods
IndexPayloads == {1, NaN}

ModsPayloads ==
    {NotAnArray, JsArray(<<>>), JsArray(<<Mod("m1")>>), JsArray(<<Mod("m1"), Mod("m2")>>),
     JsArray(<<Mod("m1"), BadMod, Mod("m2")>>), JsArray(<<BadMod>>),
     JsArray(<<NoMod, Mod("m1"), PrimitiveMod>>)}

\* Votes handed to addVote directly: as voteService.submitVote builds them
\* (id = `${userId}_${modId}`), as useAppStore.test.ts builds them (id
\* 'vote1'), { id: 'vote1' } alone, { modId, vote } without an id, 'invalid',
\* a vote with one property missing or wrong, and null
NoVote == [id |-> <<Null>>, roomId |-> Null, modId |-> Null, userId |-> Null, vote |-> Null]
ValidVotes ==
    {Vote("u1", "m1", "like"), Vote("u1", "m1", "dislike"), Vote("u2", "m1", "like"),
     [Vote("u1", "m1", "like") EXCEPT !.id = <<"vote1">>]}
MalformedVotes ==
    {[PrimitiveVote EXCEPT !.id = <<"vote1">>],
     [PrimitiveVote EXCEPT !.id = <<Undefined>>, !.modId = "m1", !.vote = "like"],
     [PrimitiveVote EXCEPT !.id = <<Undefined>>],
     [Vote("u1", "m1", "like") EXCEPT !.id = <<NotAString>>],
     [Vote("u1", "m1", "like") EXCEPT !.vote = "maybe"]}
        \cup {[Vote("u1", "m1", "like") EXCEPT ![f] = Undefined] :
                f \in {"roomId", "modId", "userId", "vote"}}
VotePayloads == ValidVotes \cup MalformedVotes \cup {NoVote}

\* The keys of LoadingState, and what the tests hand to setLoading
LoadingFlags == {"user", "room", "mods"}
LoadingKeys == {"user", "invalid", NotAString}
LoadingValues == {JsTrue, JsFalse, "invalid"}

StoreInitial ==
    /\ user = NoUser /\ room = NoRoom
    /\ mods = InitialMods
    /\ votes = NoVotes
    /\ isLoading = InitialLoading

\* The record of a call: the mutator, whether its argument was one of the
\* malformed values above, whether the store had left its initial state
NoCall == [op |-> "none", malformed |-> FALSE, dirty |-> FALSE]
Call(op, malformed) == [op |-> op, malformed |-> malformed, dirty |-> ~StoreInitial]

StoreIdle ==
    /\ StoreInitial
    /\ lastCall = NoCall /\ threw = FALSE
    /\ now = 0 /\ swipeIndex = 0 /\ page = "other"

\* setUser(user)
SetUser(u) ==
    /\ user' = IF setUserThrows(u) THEN user ELSE setUser(user, u)
    /\ threw' = setUserThrows(u)
    /\ lastCall' = Call("setUser", u \in MalformedUsers)
    /\ UNCHANGED <<room, mods, votes, isLoading, now, swipeIndex, page, tallyVars, retryVars, lobbyVars,
                   serviceVars>>

\* setRoom(room)
SetRoom(r) ==
    /\ room' = IF setRoomThrows(r) THEN room ELSE setRoom(room, r)
    /\ threw' = setRoomThrows(r)
    /\ lastCall' = Call("setRoom", r \in MalformedRooms)
    /\ UNCHANGED <<user, mods, votes, isLoading, now, swipeIndex, page, tallyVars, retryVars, lobbyVars,
                   serviceVars>>

\* SwipePage's useEffect on [mods.proposed]: React runs it after the render
\* that follows the change, before the next event is handled
SwipeEffect(ms) ==
    IF Len(ms.proposed) > 0 THEN setCurrentMod(ms, ms.proposed[1], 0) ELSE ms

\* setMods(mods), and the SwipePage effect it triggers while the page is mounted
SetMods(arg) ==
    /\ mods' = IF setModsThrows(arg) THEN mods
               ELSE IF page = "swipe" THEN SwipeEffect(setMods(mods, arg))
               ELSE setMods(mods, arg)
    /\ threw' = setModsThrows(arg)
    /\ lastCall' = Call("setMods", ~IsArray(arg)
                                   \/ \E i \in 1..Len(arg.items) : arg.items[i] \in MalformedMods)
    /\ UNCHANGED <<user, room, votes, isLoading, now, swipeIndex, page, tallyVars, retryVars, lobbyVars,
                   serviceVars>>

\* setCurrentMod(current, currentIndex) called directly
SetCurrentMod(current, currentIndex) ==
    /\ mods' = IF setCurrentModThrows(current) THEN mods
               ELSE setCurrentMod(mods, current, currentIndex)
    /\ threw' = setCurrentModThrows(current)
    /\ lastCall' = Call("setCurrentMod", current \in MalformedMods)
    /\ UNCHANGED <<user, room, votes, isLoading, now, swipeIndex, page, tallyVars, retryVars, lobbyVars,
                   serviceVars>>

\* addVote(vote) called directly; the model stops growing the map at MaxStoredVotes
AddVote(v) ==
    /\ Cardinality(DOMAIN addVote(votes, v)) <= MaxStoredVotes
    /\ votes' = IF addVoteThrows(v, NoVote) THEN votes ELSE addVote(votes, v)
    /\ threw' = addVoteThrows(v, NoVote)
    /\ lastCall' = Call("addVote", v \in MalformedVotes)
    /\ UNCHANGED <<user, room, mods, isLoading, now, swipeIndex, page, tallyVars, retryVars, lobbyVars,
                   serviceVars>>

\* setLoading(key, value)
SetLoading(key, value) ==
    /\ isLoading' = setLoading(isLoading, key, value)
    /\ threw' = FALSE
    /\ lastCall' = Call("setLoading", key \notin LoadingFlags \/ value \notin {JsTrue, JsFalse})
    /\ UNCHANGED <<user, room, mods, votes, now, swipeIndex, page, tallyVars, retryVars, lobbyVars, serviceVars>>

\* resetState that clears the flags it finds instead of replacing isLoading
ResetStateClearsFlagsInPlace ==
    /\ user' = NoUser /\ room' = NoRoom
    /\ mods' = InitialMods
    /\ votes' = NoVotes
    /\ isLoading' = [k \in DOMAIN isLoading |-> FALSE]
    /\ threw' = FALSE
    /\ lastCall' = Call("resetState", FALSE)
    /\ UNCHANGED <<now, swipeIndex, page, tallyVars, retryVars, lobbyVars, serviceVars>>

\* resetState() (the SwipePage effect does nothing on an empty mods.proposed)
ResetState ==
    /\ user' = NoUser /\ room' = NoRoom
    /\ mods' = InitialMods
    /\ votes' = NoVotes
    /\ isLoading' = InitialLoading
    /\ threw' = FALSE
    /\ lastCall' = Call("resetState", FALSE)
    /\ UNCHANGED <<now, swipeIndex, page, tallyVars, retryVars, lobbyVars, serviceVars>>

\* The store's mutators called directly, as useAppStore.test.ts calls them
NextStore ==
    \/ \E u \in UserPayloads : SetUser(u)
    \/ \E r \in RoomPayloads : SetRoom(r)
    \/ \E arg \in ModsPayloads : SetMods(arg)
    \/ \E current \in CurrentPayloads, i \in IndexPayloads : SetCurrentMod(current, i)
    \/ \E v \in VotePayloads : AddVote(v)
    \/ \E key \in LoadingKeys, value \in LoadingValues : SetLoading(key, value)
    \/ ResetState

-----------------------------------------------------------------------------
(* SwipePage *)

\* The router shows SwipePage: useState(0), then the effect
MountSwipePage ==
    /\ page = "other"
    /\ page' = "swipe"
    /\ swipeIndex' = 0
    /\ mods' = SwipeEffect(mods)
    /\ threw' = FALSE
    /\ lastCall' = IF Len(mods.proposed) > 0 THEN Call("setCurrentMod", FALSE) ELSE lastCall
    /\ UNCHANGED <<user, room, votes, isLoading, now, tallyVars, retryVars, lobbyVars, serviceVars>>

\* The vote handleSwipe builds: id `vote_${Date.now()}` (ToString is the
\* number's decimal string)
SwipeVote(direction, mod) ==
    [id |-> <<"vote", "_", ToString(now)>>,
     roomId |-> room.id,
     modId |-> mod.id,
     userId |-> user.uid,
     vote |-> IF direction = "right" THEN "like" ELSE "dislike"]

\* handleSwipe(direction, mod), past its guard (!user || !room)
handleSwipe(direction, mod) ==
    LET nextIndex == swipeIndex + 1
    IN  /\ user # NoUser /\ room # NoRoom
        /\ Cardinality(DOMAIN addVote(votes, SwipeVote(direction, mod))) <= MaxStoredVotes
        /\ votes' = addVote(votes, SwipeVote(direction, mod))
        /\ IF nextIndex < Len(mods.proposed)
             THEN /\ swipeIndex' = nextIndex
                  /\ mods' = setCurrentMod(mods, mods.proposed[nextIndex + 1], nextIndex)
                  /\ page' = page
             ELSE \* navigate(`/room/${id}/results`)
                  /\ page' = "other"
                  /\ UNCHANGED <<swipeIndex, mods>>
        /\ threw' = FALSE
        /\ lastCall' = IF nextIndex < Len(mods.proposed) THEN Call("setCurrentMod", FALSE)
                       ELSE Call("addVote", FALSE)
        /\ UNCHANGED <<user, room, isLoading, now, tallyVars, retryVars, lobbyVars, serviceVars>>

\* The cards on screen: mods.proposed.slice(currentIndex, currentIndex + 2)
Cards ==
    {i \in 1..Len(mods.proposed) : swipeIndex + 1 <= i /\ i <= swipeIndex + 2}

\* The page renders cards and buttons only with a user, a room and a mod
Rendered == page = "swipe" /\ user # NoUser /\ room # NoRoom /\ Len(mods.proposed) > 0

\* <TinderCard onSwipe={(dir) => handleSwipe(dir, mod)}>
SwipeCard(direction, i) ==
    /\ Rendered
    /\ i \in Cards
    /\ handleSwipe(direction, mods.proposed[i])

\* handleButtonClick(direction)
SwipeButton(direction) ==
    /\ Rendered
    /\ mods.current # NoMod
    /\ handleSwipe(direction, mods.current)

\* A millisecond passes
Tick ==
    /\ now < MaxNow
    /\ now' = now + 1
    /\ UNCHANGED <<user, room, mods, votes, isLoading, lastCall, threw, swipeIndex, page,
                   tallyVars, retryVars, lobbyVars, serviceVars>>

NextVotes ==
    \/ \E u \in UserPayloads : SetUser(u)
    \/ \E r \in RoomPayloads : SetRoom(r)
    \/ \E arg \in ModsPayloads : SetMods(arg)
    \/ \E v \in VotePayloads : AddVote(v)
    \/ ResetState
    \/ MountSwipePage
    \/ \E d \in {"left", "right"}, i \in 1..MaxMods : SwipeCard(d, i)
    \/ \E d \in {"left", "right"} : SwipeButton(d)
    \/ Tick

-----------------------------------------------------------------------------
(* The realtime listeners and the Lobby *)

Channels == {"players", "mods"}

\* !v is false
Truthy(v) == v \notin {Undefined, Null, JsFalse, ""}

\* Functions: a test's vi.fn(), a test's callback that always throws, and
\* the two arrow functions the Lobby effect passes
MockFn == "<function vi.fn()>"
FaultyFn == "<function faultyCallback>"
LobbyPlayersFn == "<function (players) => ...>"
LobbyModsFn == "<function (proposedMods) => ...>"
Functions == {MockFn, FaultyFn, LobbyPlayersFn, LobbyModsFn}

\* typeof v === 'function'
IsFunction(v) == v \in Functions

\* Dates: a Date object is written "<Date ...>"; new Date(s) of a string
\* that does not parse is the invalid Date, whose getTime() is NaN
ParseableDates == {"2024-01-01T00:00:00.000Z"}
DateOf(iso) == "<Date " \o iso \o ">"
InvalidDate == "<Date NaN>"
Dates == {DateOf(iso) : iso \in ParseableDates} \cup {InvalidDate}
NewDate(str) == IF str \in ParseableDates THEN DateOf(str) ELSE InvalidDate

\* What a validation function does: it returns a value or throws a
\* ValidationError that names a field
Valid(value) == [thrown |-> NoError, field |-> Undefined, value |-> value]
Invalid(field, value) ==
    [thrown |-> Err("ValidationError", Undefined), field |-> field, value |-> value]

\* The createdAt block without its `instanceof Date` branch: strings only
validDateStringsOnly(v) ==
    IF v \in Dates THEN Undefined
    ELSE IF IsString(v) THEN (IF NewDate(v) = InvalidDate THEN Undefined ELSE NewDate(v))
    ELSE Undefined

\* The createdAt / joinedAt block of the validation functions: the Date it
\* yields, or Undefined where it throws
validDate(v) ==
    IF v \in Dates THEN v
    ELSE IF IsString(v) THEN (IF NewDate(v) = InvalidDate THEN Undefined ELSE NewDate(v))
    ELSE Undefined

\* A player record of the realtime database: null, a value that is no
\* object, or an object with these properties
NullPlayerData == [nickname |-> Null, isHost |-> Null, isOnline |-> Null, joinedAt |-> Null]
PrimitivePlayerData ==
    [nickname |-> Undefined, isHost |-> Undefined, isOnline |-> Undefined, joinedAt |-> Undefined]
NoPlayer ==
    [uid |-> Undefined, nickname |-> Undefined, isAnonymous |-> Undefined, isHost |-> Undefined,
     joinedAt |-> Undefined, isOnline |-> Undefined]

\* validatePlayerData(data, playerId)
validatePlayerData(data, playerId) ==
    IF data = NullPlayerData \/ data = PrimitivePlayerData THEN Invalid(Undefined, NoPlayer)
    ELSE IF ~Truthy(data.nickname) \/ ~IsString(data.nickname) THEN Invalid("nickname", NoPlayer)
    ELSE IF ~IsBoolean(data.isHost) THEN Invalid("isHost", NoPlayer)
    ELSE IF ~IsBoolean(data.isOnline) THEN Invalid("isOnline", NoPlayer)
    ELSE IF validDate(data.joinedAt) = Undefined THEN Invalid("joinedAt", NoPlayer)
    ELSE Valid([uid |-> playerId, nickname |-> data.nickname, isAnonymous |-> JsTrue,
                isHost |-> data.isHost, joinedAt |-> validDate(data.joinedAt),
                isOnline |-> data.isOnline])

\* A mod record of the realtime database, and { id, ...data }: the key is
\* the id unless the record has an id of its own
NullModData ==
    [id |-> Null, roomId |-> Null, name |-> Null, url |-> Null, description |-> Null,
     image |-> Null, proposedBy |-> Null, createdAt |-> Null]
PrimitiveModData ==
    [id |-> Undefined, roomId |-> Undefined, name |-> Undefined, url |-> Undefined,
     description |-> Undefined, image |-> Undefined, proposedBy |-> Undefined,
     createdAt |-> Undefined]
WithId(id, data) ==
    IF data = NullModData \/ data = PrimitiveModData THEN [PrimitiveModData EXCEPT !.id = id]
    ELSE IF data.id = Undefined THEN [data EXCEPT !.id = id]
    ELSE data

\* url: data.url || undefined
OrUndefined(v) == IF Truthy(v) THEN v ELSE Undefined

\* validateModData(data)
validateModData(data) ==
    IF data = NullModData \/ data = PrimitiveModData THEN Invalid(Undefined, PrimitiveModData)
    ELSE IF ~Truthy(data.id) \/ ~IsString(data.id) THEN Invalid("id", PrimitiveModData)
    ELSE IF ~Truthy(data.roomId) \/ ~IsString(data.roomId) THEN Invalid("roomId", PrimitiveModData)
    ELSE IF ~Truthy(data.name) \/ ~IsString(data.name) THEN Invalid("name", PrimitiveModData)
    ELSE IF ~Truthy(data.description) \/ ~IsString(data.description)
         THEN Invalid("description", PrimitiveModData)
    ELSE IF ~Truthy(data.proposedBy) \/ ~IsString(data.proposedBy)
         THEN Invalid("proposedBy", PrimitiveModData)
    ELSE IF Truthy(data.url) /\ ~IsString(data.url) THEN Invalid("url", PrimitiveModData)
    ELSE IF Truthy(data.image) /\ ~IsString(data.image) THEN Invalid("image", PrimitiveModData)
    ELSE IF validDate(data.createdAt) = Undefined THEN Invalid("createdAt", PrimitiveModData)
    ELSE Valid([id |-> data.id, roomId |-> data.roomId, name |-> data.name,
                url |-> OrUndefined(data.url), description |-> data.description,
                image |-> OrUndefined(data.image), proposedBy |-> data.proposedBy,
                createdAt |-> validDate(data.createdAt)])

\* snapshot.val(): null, or an object of records (its entries in key order)
NoData == [isObject |-> FALSE, entries |-> <<>>]
ObjectOf(entries) == [isObject |-> TRUE, entries |-> entries]
Entry(id, data) == [id |-> id, data |-> data]

\* safeGetObject(data, defaultValue)
safeGetObject(data, defaultValue) == IF data.isObject THEN data ELSE defaultValue

\* players.push({ id, nickname, isHost, joinedAt, isOnline })
PlayerOf(id, v) ==
    [id |-> id, nickname |-> v.nickname, isHost |-> v.isHost, joinedAt |-> v.joinedAt,
     isOnline |-> v.isOnline]

\* The forEach of the players handler with no try around validatePlayerData:
\* the first invalid record ends it, and the handler's catch passes on []
collectPlayersNoCatch(entries) ==
    IF \E i \in 1..Len(entries) :
          validatePlayerData(entries[i].data, entries[i].id).thrown # NoError
    THEN <<>>
    ELSE [i \in 1..Len(entries) |->
            PlayerOf(entries[i].id, validatePlayerData(entries[i].data, entries[i].id).value)]

\* Object.entries(playersData).forEach(...): the players array it builds;
\* a record that validatePlayerData throws on is logged and skipped
RECURSIVE collectPlayers(_)
collectPlayers(entries) ==
    IF entries = <<>> THEN <<>>
    ELSE LET id == Head(entries).id
             validated == validatePlayerData(Head(entries).data, id)
         IN  IF validated.thrown # NoError THEN collectPlayers(Tail(entries))
             ELSE <<PlayerOf(id, validated.value)>> \o collectPlayers(Tail(entries))

\* Object.entries(modsData).forEach(...): the mods array it builds
RECURSIVE collectMods(_)
collectMods(entries) ==
    IF entries = <<>> THEN <<>>
    ELSE LET validated == validateModData(WithId(Head(entries).id, Head(entries).data))
         IN  IF validated.thrown # NoError THEN collectMods(Tail(entries))
             ELSE <<validated.value>> \o collectMods(Tail(entries))

\* A callback that throws when it is called
callbackThrows(callback) == callback = FaultyFn

\* The snapshot handler given to onValue: the arrays it calls the callback
\* with, and whether an exception leaves the handler. The handler's catch
\* calls callback([]), outside any try.
handleSnapshot(ch, callback, val) ==
    LET entries == safeGetObject(val, ObjectOf(<<>>)).entries
        records == IF ch = "players" THEN collectPlayers(entries) ELSE collectMods(entries)
    IN  IF callbackThrows(callback)
        THEN [invoked |-> <<records, <<>>>>, threw |-> callbackThrows(callback)]
        ELSE [invoked |-> <<records>>, threw |-> FALSE]

\* The error handler given to onValue: callback([])
handleListenerError(callback) == [invoked |-> <<<<>>>>, threw |-> callbackThrows(callback)]

\* The parameter check of onPlayersChanged / onModsChanged: what it throws
paramError(roomId, callback) ==
    IF ~Truthy(roomId) \/ ~IsString(roomId) THEN Err("ValidationError", Undefined)
    ELSE IF ~Truthy(callback) \/ ~IsFunction(callback) THEN Err("ValidationError", Undefined)
    ELSE NoError

\* No subscribe call was made on a channel yet
NoSub ==
    [roomId |-> Undefined, callback |-> Undefined, returned |-> Undefined, thrown |-> NoError,
     cleanup |-> "none", registered |-> FALSE, unsubCalls |-> 0, offThrew |-> FALSE,
     unsubThrew |-> FALSE]

\* onPlayersChanged(roomId, callback) / onModsChanged(roomId, callback): the
\* whole body is in a try whose catch returns () => {}. setupThrows: ref()
\* or onValue() throws.
subscribe(roomId, callback, setupThrows) ==
    LET caught == IF paramError(roomId, callback) # NoError THEN paramError(roomId, callback)
                  ELSE IF setupThrows THEN Err("Error", Undefined)
                  ELSE NoError
    IN  [roomId |-> roomId, callback |-> callback,
         returned |-> "function", thrown |-> NoError,
         cleanup |-> IF caught = NoError THEN "off" ELSE "noop",
         registered |-> caught = NoError,
         unsubCalls |-> 0, offThrew |-> FALSE, unsubThrew |-> FALSE]

\* What leaves the returned function: off(ref, unsubscribe) is in a try
\* whose catch logs; () => {} does nothing
offThrown(offThrows) == IF offThrows THEN Err("Error", Undefined) ELSE NoError
cleanupThrownNoCatch(cleanup, offThrows) ==
    IF cleanup = "off" THEN offThrown(offThrows) ELSE NoError
cleanupThrown(cleanup, offThrows) == NoError

\* One call of the returned function. off() removes the listener unless it throws.
unsubscribe(s, offThrows) ==
    [s EXCEPT !.unsubCalls = @ + 1,
              !.registered = IF s.cleanup = "off" /\ ~offThrows THEN FALSE ELSE @,
              !.offThrew = @ \/ (s.cleanup = "off" /\ offThrows),
              !.unsubThrew = @ \/ cleanupThrown(s.cleanup, offThrows) # NoError]

\* What the tests and the database hand to the listeners
RoomIdArgs == {"r1", "", Null, NotAString}
CallbackArgs == {MockFn, FaultyFn, Null, "invalid"}

GoodPlayerData ==
    [nickname |-> "Ann", isHost |-> JsTrue, isOnline |-> JsTrue,
     joinedAt |-> "2024-01-01T00:00:00.000Z"]
PlayerDataValues ==
    {GoodPlayerData, [GoodPlayerData EXCEPT !.nickname = ""],
     [GoodPlayerData EXCEPT !.isOnline = Undefined], [GoodPlayerData EXCEPT !.joinedAt = "soon"],
     NullPlayerData}

GoodModData ==
    [id |-> Undefined, roomId |-> "r1", name |-> "name", url |-> Undefined,
     description |-> "desc", image |-> Undefined, proposedBy |-> "u1",
     createdAt |-> "2024-01-01T00:00:00.000Z"]
ModDataValues ==
    {GoodModData,
     [GoodModData EXCEPT !.id = "mod1", !.createdAt = DateOf("2024-01-01T00:00:00.000Z")],
     [PrimitiveModData EXCEPT !.id = "mod2"],
     [GoodModData EXCEPT !.createdAt = "soon"],
     NullModData}

DataValues(ch) == IF ch = "players" THEN PlayerDataValues ELSE ModDataValues
GoodData(ch) == IF ch = "players" THEN GoodPlayerData ELSE GoodModData
BadData(ch) ==
    IF ch = "players" THEN [GoodPlayerData EXCEPT !.nickname = ""]
    ELSE [PrimitiveModData EXCEPT !.id = "mod2"]

\* The keys of the records: player ids, push keys
Key(ch, i) == (IF ch = "players" THEN "p" ELSE "k") \o ToString(i)
EntriesOf(ch, ds) == [i \in 1..Len(ds) |-> Entry(Key(ch, i), ds[i])]

Snapshots(ch) ==
    {NoData} \cup {ObjectOf(EntriesOf(ch, ds)) : ds \in SeqsUpTo(DataValues(ch), MaxEntries)}

NoDelivery ==
    [channel |-> "none", kind |-> "none", snapshot |-> NoData, invoked |-> <<>>,
     storeCalls |-> <<>>, threw |-> FALSE, unmounted |-> FALSE]

LobbyIdle ==
    /\ sub = [ch \in Channels |-> NoSub]
    /\ lastDelivery = NoDelivery
    /\ lobbyPc = "idle" /\ isMounted = FALSE /\ thenPending = FALSE
    /\ unsubscribePlayers = Undefined /\ unsubscribeMods = Undefined

\* The Lobby's callbacks: the store calls each makes when it is called with
\* an array. Both return at once when isMounted is false.
RoomUpdater == PrimitiveRoom     \* setRoom((currentRoom) => ...): a function is no Room
playersCallback(mounted, players) ==
    IF ~mounted THEN <<>>
    ELSE IF IsArray(players) THEN <<"setRoom", "setLoading">>
    ELSE <<"setLoading">>
\* The mods callback without `if (!isMounted) return`
modsCallbackUnguarded(mounted, proposedMods) == <<"setMods", "setLoading">>
modsCallback(mounted, proposedMods) == IF ~mounted THEN <<>> ELSE <<"setMods", "setLoading">>

storeCallsOf(callback, mounted, records) ==
    IF callback = LobbyPlayersFn THEN playersCallback(mounted, JsArray(records))
    ELSE IF callback = LobbyModsFn THEN modsCallback(mounted, JsArray(records))
    ELSE <<>>

\* The store after a callback was called with an array
CallbackEffect(callback, records) ==
    LET storeCalls == storeCallsOf(callback, isMounted, records)
    IN  IF storeCalls = <<>> THEN UNCHANGED storeVars
        ELSE /\ room' = IF callback = LobbyPlayersFn THEN setRoom(room, RoomUpdater) ELSE room
             /\ mods' = IF callback = LobbyModsFn THEN setMods(mods, JsArray(records)) ELSE mods
             /\ isLoading' = setLoading(isLoading,
                                        IF callback = LobbyPlayersFn THEN "room" ELSE "mods",
                                        JsFalse)
             /\ lastCall' = Call("setLoading", FALSE)
             /\ threw' = FALSE
             /\ UNCHANGED <<user, votes, now, swipeIndex, page>>

\* The database delivers a snapshot to a listener
Deliver(ch, val) ==
    LET handled == handleSnapshot(ch, sub[ch].callback, val)
    IN  /\ sub[ch].registered
        /\ lastDelivery' =
              [channel |-> ch, kind |-> "snapshot", snapshot |-> val,
               invoked |-> handled.invoked,
               storeCalls |-> storeCallsOf(sub[ch].callback, isMounted, handled.invoked[1]),
               threw |-> handled.threw,
               unmounted |-> lobbyPc = "unmounted"]
        /\ CallbackEffect(sub[ch].callback, handled.invoked[1])
        /\ UNCHANGED <<sub, lobbyPc, isMounted, thenPending, unsubscribePlayers,
                       unsubscribeMods, tallyVars, retryVars, serviceVars>>

\* The database reports an error to a listener
ListenerError(ch) ==
    LET handled == handleListenerError(sub[ch].callback)
    IN  /\ sub[ch].registered
        /\ lastDelivery' =
              [channel |-> ch, kind |-> "error", snapshot |-> NoData,
               invoked |-> handled.invoked,
               storeCalls |-> storeCallsOf(sub[ch].callback, isMounted, <<>>),
               threw |-> handled.threw,
               unmounted |-> lobbyPc = "unmounted"]
        /\ CallbackEffect(sub[ch].callback, <<>>)
        /\ UNCHANGED <<sub, lobbyPc, isMounted, thenPending, unsubscribePlayers,
                       unsubscribeMods, tallyVars, retryVars, serviceVars>>

\* A caller subscribes one listener
Subscribe(ch, roomId, callback, setupThrows) ==
    /\ \A c \in Channels : sub[c] = NoSub
    /\ sub' = [sub EXCEPT ![ch] = subscribe(roomId, callback, setupThrows)]
    /\ UNCHANGED <<lastDelivery, lobbyPc, isMounted, thenPending, unsubscribePlayers,
                   unsubscribeMods, tallyVars, retryVars, storeVars, serviceVars>>

\* The caller calls the function it was given, any number of times
Unsubscribe(ch, offThrows) ==
    /\ sub[ch].returned = "function"
    /\ sub[ch].unsubCalls < MaxUnsubCalls
    /\ sub' = [sub EXCEPT ![ch] = unsubscribe(sub[ch], offThrows)]
    /\ UNCHANGED <<lastDelivery, lobbyPc, isMounted, thenPending, unsubscribePlayers,
                   unsubscribeMods, tallyVars, retryVars, storeVars, serviceVars>>

NextListeners ==
    \/ \E ch \in Channels, roomId \in RoomIdArgs, callback \in CallbackArgs,
          setupThrows \in BOOLEAN : Subscribe(ch, roomId, callback, setupThrows)
    \/ \E ch \in Channels, offThrows \in BOOLEAN : Unsubscribe(ch, offThrows)
    \/ \E ch \in Channels : \E val \in Snapshots(ch) : Deliver(ch, val)
    \/ \E ch \in Channels : ListenerError(ch)

\* The snapshots the Lobby's listeners are given
LobbySnapshots(ch) ==
    {NoData, ObjectOf(EntriesOf(ch, <<GoodData(ch)>>)),
     ObjectOf(EntriesOf(ch, <<BadData(ch), GoodData(ch)>>))}

\* Lobby is rendered and its effect runs: `if (!roomId) return`, the two
\* setLoading calls, isMounted, the two listeners; the callback of
\* Promise.all(...).then is queued
MountLobby(roomId, playersSetupThrows, modsSetupThrows) ==
    /\ lobbyPc = "idle"
    /\ lobbyPc' = "mounted"
    /\ IF ~Truthy(roomId)
         THEN UNCHANGED <<isLoading, lastCall, threw, isMounted, sub, thenPending>>
         ELSE /\ isLoading' = setLoading(setLoading(isLoading, "room", JsTrue), "mods", JsTrue)
              /\ lastCall' = Call("setLoading", FALSE)
              /\ threw' = FALSE
              /\ isMounted' = TRUE
              /\ sub' = [sub EXCEPT
                           !["players"] = subscribe(roomId, LobbyPlayersFn, playersSetupThrows),
                           !["mods"] = subscribe(roomId, LobbyModsFn, modsSetupThrows)]
              /\ thenPending' = TRUE
    /\ UNCHANGED <<user, room, mods, votes, now, swipeIndex, page, lastDelivery,
                   unsubscribePlayers, unsubscribeMods, tallyVars, retryVars, serviceVars>>

\* .then(([playersUnsub, modsUnsub]) => { if (isMounted) ... })
ThenRuns ==
    /\ thenPending
    /\ thenPending' = FALSE
    /\ unsubscribePlayers' = IF isMounted THEN sub["players"].returned ELSE unsubscribePlayers
    /\ unsubscribeMods' = IF isMounted THEN sub["mods"].returned ELSE unsubscribeMods
    /\ UNCHANGED <<sub, lastDelivery, lobbyPc, isMounted, tallyVars, retryVars, storeVars, serviceVars>>

\* Lobby is removed and React runs the effect's cleanup, if the effect
\* returned one. React may do so before the queued promise callback has run
\* (a development build's StrictMode mounts, unmounts and mounts again).
UnmountLobby(playersOffThrows, modsOffThrows) ==
    /\ lobbyPc = "mounted"
    /\ lobbyPc' = "unmounted"
    /\ isMounted' = FALSE
    /\ sub' = [ch \in Channels |->
                 LET held == IF ch = "players" THEN unsubscribePlayers ELSE unsubscribeMods
                     offThrows == IF ch = "players" THEN playersOffThrows ELSE modsOffThrows
                 IN  IF isMounted /\ held = "function" THEN unsubscribe(sub[ch], offThrows)
                     ELSE sub[ch]]
    /\ UNCHANGED <<lastDelivery, thenPending, unsubscribePlayers, unsubscribeMods, tallyVars,
                   retryVars, storeVars, serviceVars>>


-----------------------------------------------------------------------------
(* The services' requests: roomService.createRoom, joinRoom,               *)
(* updateRoomStatus and modService.proposeMod, with the documents they     *)
(* write                                                                   *)

\* An error: its class, its code, and its message (a template string is
\* the tuple of its parts)
Failure(cls, code, message) == [cls |-> cls, code |-> code, message |-> message]
NoFailure == Failure(Undefined, Undefined, <<>>)

\* new ValidationError(message)
ValidationFailure(message) == Failure("ValidationError", Undefined, <<message>>)

\* What getDoc / setDoc / set / updateDoc reject with, as withRetry passes
\* it on: an SDK error with a code, or a plain Error as the tests use
SdkFailures ==
    {Failure("FirestoreError", "permission-denied", <<"Missing or insufficient permissions.">>),
     Failure("Error", Undefined, <<"Firebase read failed">>)}
Failures == {NoFailure} \cup SdkFailures

\* handleFirebaseError(error, operation): what it throws. The cases of the
\* switch other than these two differ from them in the message only.
handleFirebaseError(error, operation) ==
    IF Truthy(error.code)
    THEN IF error.code = "permission-denied"
         THEN Failure("FirebaseError", error.code, <<"Access denied for ", operation>>)
         ELSE IF error.code = "not-found"
         THEN Failure("FirebaseError", error.code, <<"Resource not found for ", operation>>)
         ELSE Failure("FirebaseError", error.code,
                      <<"Firebase error during ", operation, ": ">> \o error.message)
    ELSE IF error.cls = "ValidationError" THEN error
    ELSE Failure("FirebaseError", Undefined,
                 <<"Unexpected error during ", operation, ": ">> \o error.message)

\* What a service call rejects with: its catch hands every error to
\* handleFirebaseError
Rejection(thrown, operation) ==
    IF thrown = NoFailure THEN NoFailure ELSE handleFirebaseError(thrown, operation)

\* s.trim(), for the strings of the model: only the blank ones change
Trim(s) == IF s \in {"", "  "} THEN "" ELSE s

\* The room statuses validateRoomData and updateRoomStatus admit
RoomStatuses == {"lobby", "voting", "results"}

\* A document of the collection 'rooms' (its settings, which are the same
\* in every room, left out); NoDoc where roomDoc.exists() is false
RoomDoc(id, hostId, createdAt, status) ==
    [id |-> id, hostId |-> hostId, createdAt |-> createdAt, status |-> status]
NoDoc == RoomDoc(Undefined, Undefined, Undefined, Undefined)

\* validateRoomData(data)
validateRoomData(data) ==
    IF data = NoDoc THEN Invalid(Undefined, NoDoc)
    ELSE IF ~Truthy(data.id) \/ ~IsString(data.id) THEN Invalid("id", NoDoc)
    ELSE IF ~Truthy(data.hostId) \/ ~IsString(data.hostId) THEN Invalid("hostId", NoDoc)
    ELSE IF ~Truthy(data.status) \/ data.status \notin RoomStatuses THEN Invalid("status", NoDoc)
    ELSE IF validDate(data.createdAt) = Undefined THEN Invalid("createdAt", NoDoc)
    ELSE Valid([data EXCEPT !.createdAt = validDate(data.createdAt)])

\* new Date() and its toISOString()
Today == "2024-01-01T00:00:00.000Z"
ToISOString(date) == CHOOSE iso \in ParseableDates : DateOf(iso) = date

\* getDoc(doc(db, 'rooms', roomId)).data()
DocOf(docs, roomId) == IF roomId \in DOMAIN docs THEN docs[roomId] ELSE NoDoc

\* setDoc / set: the document or entry under a key is replaced
Put(docs, key, value) == [k \in DOMAIN docs \cup {key} |-> IF k = key THEN value ELSE docs[k]]

\* A player entry of the Realtime Database
PlayerEntry(nickname, isHost) ==
    [nickname |-> nickname, isHost |-> isHost, joinedAt |-> Today, isOnline |-> JsTrue]

\* A result of a service call: the documents afterwards, and the error the
\* call rejects with
Served(docs, entries, thrown, operation) ==
    [rooms |-> docs, playerEntries |-> entries, error |-> Rejection(thrown, operation)]

\* The parameter check of createRoom and joinRoom on an id and a nickname
\* (named hostId and hostNickname in createRoom)
idError(id, name) ==
    IF ~Truthy(id) \/ ~IsString(id)
    THEN ValidationFailure(name \o " is required and must be a string")
    ELSE NoFailure
nicknameError(nickname, name) ==
    IF ~Truthy(nickname) \/ ~IsString(nickname)
    THEN ValidationFailure(name \o " is required and must be a string")
    ELSE IF Trim(nickname) = "" THEN ValidationFailure(name \o " cannot be empty")
    ELSE NoFailure

\* The first of the errors that is one: the statements of a try run in order
FirstFailure(fs) ==
    IF \A i \in DOMAIN fs : fs[i] = NoFailure THEN NoFailure
    ELSE fs[CHOOSE i \in DOMAIN fs : fs[i] # NoFailure /\ \A j \in 1..(i - 1) : fs[j] = NoFailure]

\* The ValidationError of validateRoomData / validateModData as the service
\* that called it throws it on: its message names the field
InvalidRoomData(checked) ==
    IF checked.thrown = NoError THEN NoFailure
    ELSE Failure("ValidationError", Undefined, <<"Invalid room data: ", checked.field>>)
InvalidModData(checked) ==
    IF checked.thrown = NoError THEN NoFailure
    ELSE Failure("ValidationError", Undefined, <<"Invalid mod data: ", checked.field>>)

\* roomService.createRoom(hostId, hostNickname). roomId is what
\* Math.random().toString(36).substring(2, 8).toUpperCase() gives;
\* docFailure and entryFailure are what setDoc and set reject with.
createRoom(docs, entries, hostId, hostNickname, roomId, docFailure, entryFailure) ==
    LET roomData == RoomDoc(roomId, hostId, DateOf(Today), "lobby")
        checked == validateRoomData(roomData)
        invalid == FirstFailure(<<idError(hostId, "hostId"),
                                  nicknameError(hostNickname, "hostNickname"),
                                  InvalidRoomData(checked)>>)
        stored == [checked.value EXCEPT !.createdAt = ToISOString(checked.value.createdAt)]
        wroteDoc == invalid = NoFailure /\ docFailure = NoFailure
        wroteEntry == wroteDoc /\ entryFailure = NoFailure
    IN  Served(IF wroteDoc THEN Put(docs, roomId, stored) ELSE docs,
               IF wroteEntry
               THEN Put(entries, <<roomId, hostId>>, PlayerEntry(Trim(hostNickname), JsTrue))
               ELSE entries,
               FirstFailure(<<invalid, docFailure, entryFailure>>), "createRoom")

\* !roomDoc.exists()
roomMissingNever(roomDoc) == FALSE
roomMissing(roomDoc) == roomDoc = NoDoc

\* roomService.joinRoom(roomId, userId, nickname). readFailure and
\* entryFailure are what getDoc and set reject with.
joinRoom(docs, entries, roomId, userId, nickname, readFailure, entryFailure) ==
    LET invalid == FirstFailure(<<idError(roomId, "roomId"), idError(userId, "userId"),
                                  nicknameError(nickname, "nickname")>>)
        roomDoc == DocOf(docs, roomId)
        roomData == IF roomDoc = NoDoc THEN NoDoc
                    ELSE IF roomDoc.id = Undefined THEN [roomDoc EXCEPT !.id = roomId]
                    ELSE roomDoc
        unusable ==
            IF roomMissing(roomDoc) THEN ValidationFailure("Room not found")
            ELSE IF roomDoc = NoDoc THEN ValidationFailure("Room data is invalid")
            ELSE InvalidRoomData(validateRoomData(roomData))
        thrown == FirstFailure(<<invalid, readFailure, unusable, entryFailure>>)
    IN  Served(docs,
               IF thrown = NoFailure
               THEN Put(entries, <<roomId, userId>>, PlayerEntry(Trim(nickname), JsFalse))
               ELSE entries,
               thrown, "joinRoom")

\* roomService.updateRoomStatus(roomId, status). updateDoc rejects with
\* not-found when the document does not exist, or with writeFailure.
updateRoomStatus(docs, entries, roomId, status, writeFailure) ==
    LET invalid ==
            FirstFailure(<<idError(roomId, "roomId"),
                           IF ~Truthy(status) \/ status \notin RoomStatuses
                           THEN ValidationFailure("status must be one of: lobby, voting, results")
                           ELSE NoFailure>>)
        absent == IF invalid = NoFailure /\ DocOf(docs, roomId) = NoDoc
                  THEN Failure("FirestoreError", "not-found", <<"No document to update">>)
                  ELSE NoFailure
        thrown == FirstFailure(<<invalid, writeFailure, absent>>)
    IN  Served(IF thrown = NoFailure
               THEN Put(docs, roomId, [docs[roomId] EXCEPT !.status = status])
               ELSE docs,
               entries, thrown, "updateRoomStatus")

\* The modData argument of proposeMod: { name, url, description, image },
\* or null
Proposal(name, description) ==
    [name |-> name, url |-> Undefined, description |-> description, image |-> Undefined]
NullProposal == [name |-> Null, url |-> Null, description |-> Null, image |-> Null]

\* The parameter check of proposeMod on modData
proposalError(modData) ==
    IF modData = NullProposal
    THEN ValidationFailure("modData is required and must be an object")
    ELSE IF ~Truthy(modData.name) \/ ~IsString(modData.name)
    THEN ValidationFailure("modData.name is required and must be a string")
    ELSE IF ~Truthy(modData.description) \/ ~IsString(modData.description)
    THEN ValidationFailure("modData.description is required and must be a string")
    ELSE IF Truthy(modData.url) /\ ~IsString(modData.url)
    THEN ValidationFailure("modData.url must be a string if provided")
    ELSE IF Truthy(modData.image) /\ ~IsString(modData.image)
    THEN ValidationFailure("modData.image must be a string if provided")
    ELSE NoFailure

\* The mod documents: Firestore's collection 'mods' and the Realtime
\* Database's rooms/<code>/mods, each a map from mod id to document
NoModRecords == [firestore |-> <<>>, rtdb |-> <<>>]

\* push(ref(rtdb, `rooms/${roomId}/mods`)).key: a key no document has yet
pushKey(records) == Key("mods", Cardinality(DOMAIN records.firestore) + 1)

\* modService.proposeMod(roomId, userId, modData). docs, the collection
\* 'rooms', is not read. docFailure and entryFailure are what setDoc and set
\* reject with.
proposeMod(docs, records, roomId, userId, modData, docFailure, entryFailure) ==
    LET invalid == FirstFailure(<<idError(roomId, "roomId"), idError(userId, "userId"),
                                  proposalError(modData)>>)
        modId == pushKey(records)
        mod == [id |-> modId, roomId |-> roomId, name |-> Trim(modData.name),
                url |-> OrUndefined(Trim(modData.url)),
                description |-> Trim(modData.description),
                image |-> OrUndefined(Trim(modData.image)),
                proposedBy |-> userId, createdAt |-> DateOf(Today)]
        checked == validateModData(mod)
        unusable == IF invalid = NoFailure THEN InvalidModData(checked) ELSE NoFailure
        stored == [checked.value EXCEPT !.createdAt = ToISOString(checked.value.createdAt)]
        wroteDoc == invalid = NoFailure /\ unusable = NoFailure /\ docFailure = NoFailure
        wroteEntry == wroteDoc /\ entryFailure = NoFailure
    IN  [modRecords |->
            [firestore |-> IF wroteDoc THEN Put(records.firestore, modId, stored)
                           ELSE records.firestore,
             rtdb |-> IF wroteEntry THEN Put(records.rtdb, modId, stored) ELSE records.rtdb],
         error |-> Rejection(FirstFailure(<<invalid, unusable, docFailure, entryFailure>>),
                             "proposeMod")]

\* What the pages and the tests call the services with
RandomRoomIds == {"r1", ""}           \* codes Math.random() yields (0 yields none)
RoomCodeArgs == {"r1", "r2", ""}      \* "r2": a code no room was created with
HostIds == {"u1", ""}
JoinerIds == {"u2", ""}
Nicknames == {"Ann", "  "}
StatusArgs == RoomStatuses \cup {"swiping", ""}
Proposals == {Proposal("name", "desc"), Proposal("  ", "desc"), NullProposal}

\* A service call as lastRequest keeps it: the room code it was about, whether
\* its arguments pass the parameter check, whether its first backend call
\* answered, and the error it rejected with
Request(op, roomId, argsOk, answered, error) ==
    [op |-> op, roomId |-> roomId, argsOk |-> argsOk, answered |-> answered,
     error |-> error]
NoRequest == Request("none", Undefined, FALSE, FALSE, NoFailure)

\* The failures the second backend call of a request is met with
EntryFailures ==
    {NoFailure,
     Failure("FirestoreError", "permission-denied", <<"Missing or insufficient permissions.">>)}

ServiceIdle ==
    /\ rooms = <<>> /\ playerEntries = <<>> /\ modRecords = NoModRecords
    /\ lastRequest = NoRequest
    /\ location = Undefined
    /\ modInput = PrimitiveModData /\ validations = <<>>

CreateRoom(hostId, hostNickname, roomId, docFailure, entryFailure) ==
    LET served == createRoom(rooms, playerEntries, hostId, hostNickname, roomId,
                             docFailure, entryFailure)
    IN  /\ rooms' = served.rooms
        /\ playerEntries' = served.playerEntries
        /\ lastRequest' = Request("createRoom", roomId,
                                   /\ idError(hostId, "hostId") = NoFailure
                                   /\ nicknameError(hostNickname, "hostNickname") = NoFailure,
                                   docFailure = NoFailure, served.error)
        /\ UNCHANGED <<modRecords, location, modInput, validations, tallyVars, retryVars,
                       storeVars, lobbyVars>>

JoinRoom(roomId, userId, nickname, readFailure, entryFailure) ==
    LET served == joinRoom(rooms, playerEntries, roomId, userId, nickname, readFailure,
                           entryFailure)
    IN  /\ rooms' = served.rooms
        /\ playerEntries' = served.playerEntries
        /\ lastRequest' = Request("joinRoom", roomId,
                                   /\ idError(roomId, "roomId") = NoFailure
                                   /\ idError(userId, "userId") = NoFailure
                                   /\ nicknameError(nickname, "nickname") = NoFailure,
                                   readFailure = NoFailure, served.error)
        /\ UNCHANGED <<modRecords, location, modInput, validations, tallyVars, retryVars,
                       storeVars, lobbyVars>>

UpdateRoomStatus(roomId, status, writeFailure) ==
    LET served == updateRoomStatus(rooms, playerEntries, roomId, status, writeFailure)
    IN  /\ rooms' = served.rooms
        /\ lastRequest' = Request("updateRoomStatus", roomId,
                                   /\ idError(roomId, "roomId") = NoFailure
                                   /\ status \in RoomStatuses,
                                   writeFailure = NoFailure, served.error)
        /\ UNCHANGED <<playerEntries, modRecords, location, modInput, validations, tallyVars,
                       retryVars, storeVars, lobbyVars>>

ProposeMod(roomId, userId, modData, docFailure, entryFailure) ==
    LET served == proposeMod(rooms, modRecords, roomId, userId, modData, docFailure,
                             entryFailure)
    IN  /\ Cardinality(DOMAIN modRecords.firestore) < MaxModRecords
        /\ modRecords' = served.modRecords
        /\ lastRequest' = Request("proposeMod", roomId,
                                   /\ idError(roomId, "roomId") = NoFailure
                                   /\ idError(userId, "userId") = NoFailure
                                   /\ proposalError(modData) = NoFailure,
                                   docFailure = NoFailure, served.error)
        /\ UNCHANGED <<rooms, playerEntries, location, modInput, validations, tallyVars,
                       retryVars, storeVars, lobbyVars>>

NextRooms ==
    \/ \E hostId \in HostIds, hostNickname \in Nicknames, roomId \in RandomRoomIds,
          docFailure \in Failures, entryFailure \in EntryFailures :
          CreateRoom(hostId, hostNickname, roomId, docFailure, entryFailure)
    \/ \E roomId \in RoomCodeArgs, userId \in JoinerIds, nickname \in Nicknames,
          readFailure \in Failures, entryFailure \in EntryFailures :
          JoinRoom(roomId, userId, nickname, readFailure, entryFailure)
    \/ \E roomId \in RoomCodeArgs, status \in StatusArgs, writeFailure \in Failures :
          UpdateRoomStatus(roomId, status, writeFailure)
    \/ \E roomId \in RandomRoomIds, userId \in JoinerIds, modData \in Proposals,
          docFailure \in Failures, entryFailure \in EntryFailures :
          ProposeMod(roomId, userId, modData, docFailure, entryFailure)

-----------------------------------------------------------------------------
(* The handlers of the CreateRoom page and of the Lobby *)

\* The user authService.getCurrentUser() / signInAnonymous() yields
SignedInUid == "u1"

\* roomService.js, the untyped module of the same name next to
\* roomService.ts: updateRoomStatus(roomId, status) writes whatever status it
\* is given and rethrows what updateDoc rejects with
updateRoomStatusUntyped(docs, entries, roomId, status, writeFailure) ==
    LET absent == IF DocOf(docs, roomId) = NoDoc
                  THEN Failure("FirestoreError", "not-found", <<"No document to update">>)
                  ELSE NoFailure
        thrown == FirstFailure(<<writeFailure, absent>>)
    IN  [rooms |-> IF thrown = NoFailure
                   THEN Put(docs, roomId, [docs[roomId] EXCEPT !.status = status])
                   ELSE docs,
         playerEntries |-> entries, error |-> thrown]

\* '../services/roomService' resolves to roomService.ts or to roomService.js,
\* by the order of the bundler's resolve.extensions
RoomServiceModules == {"roomService.ts", "roomService.js"}

\* navigate(`/room/${roomId}/swipe`)
SwipePath(roomId) == "/room/" \o roomId \o "/swipe"

\* CreateRoom's handleCreateRoom: `if (!nickname.trim()) return`, setUser,
\* createRoom, and on success setRoom({ ...newRoom, isHost: true,
\* players: [userData], status: 'lobby' }); the catch sets a local message
HandleCreateRoom(nickname, roomId, docFailure, entryFailure) ==
    LET userData == [uid |-> SignedInUid, nickname |-> Trim(nickname), isAnonymous |-> JsTrue]
        served == createRoom(rooms, playerEntries, SignedInUid, Trim(nickname), roomId,
                             docFailure, entryFailure)
        newRoom == [id |-> roomId, hostId |-> SignedInUid, isHost |-> JsTrue,
                    players |-> JsArray(<<userData>>), status |-> "lobby"]
    IN  /\ lobbyPc = "idle"
        /\ room = NoRoom
        /\ IF Trim(nickname) = ""
             THEN UNCHANGED <<user, room, lastCall, threw, rooms, playerEntries, lastRequest>>
             ELSE /\ user' = setUser(user, userData)
                  /\ rooms' = served.rooms
                  /\ playerEntries' = served.playerEntries
                  /\ lastRequest' = Request("createRoom", roomId, TRUE, docFailure = NoFailure,
                                            served.error)
                  /\ room' = IF served.error = NoFailure THEN setRoom(room, newRoom) ELSE room
                  /\ lastCall' = Call(IF served.error = NoFailure THEN "setRoom" ELSE "setUser",
                                      FALSE)
                  /\ threw' = FALSE
        /\ UNCHANGED <<mods, votes, isLoading, now, swipeIndex, page, modRecords, location,
                       modInput, validations, tallyVars, retryVars, lobbyVars>>

\* The room code of the mounted Lobby's URL: the one it subscribed with
LobbyRoomId == sub["players"].roomId

\* Lobby's handleStartVoting: with at least one proposed mod and a roomId,
\* updateRoomStatus(roomId, 'swiping') and then navigate to the swipe page;
\* the catch shows the error
HandleStartVoting(module, writeFailure) ==
    LET served == IF module = "roomService.ts"
                  THEN updateRoomStatus(rooms, playerEntries, LobbyRoomId, "swiping",
                                        writeFailure)
                  ELSE updateRoomStatusUntyped(rooms, playerEntries, LobbyRoomId, "swiping",
                                               writeFailure)
    IN  /\ lobbyPc = "mounted"
        /\ IF Len(mods.proposed) > 0 /\ Truthy(LobbyRoomId)
             THEN /\ rooms' = served.rooms
                  /\ lastRequest' = Request("updateRoomStatus", LobbyRoomId,
                                            module = "roomService.js", writeFailure = NoFailure,
                                            served.error)
                  /\ location' = IF served.error = NoFailure THEN SwipePath(LobbyRoomId)
                                 ELSE location
             ELSE UNCHANGED <<rooms, lastRequest, location>>
        /\ UNCHANGED <<playerEntries, modRecords, modInput, validations, tallyVars, retryVars,
                       storeVars, lobbyVars>>

NextLobby ==
    \/ \E nickname \in Nicknames, roomId \in RandomRoomIds, docFailure \in Failures,
          entryFailure \in EntryFailures :
          HandleCreateRoom(nickname, roomId, docFailure, entryFailure)
    \/ \E roomId \in {"r1", Undefined}, playersSetupThrows \in BOOLEAN,
          modsSetupThrows \in BOOLEAN : MountLobby(roomId, playersSetupThrows, modsSetupThrows)
    \/ ThenRuns
    \/ \E playersOffThrows \in BOOLEAN, modsOffThrows \in BOOLEAN :
          UnmountLobby(playersOffThrows, modsOffThrows)
    \/ \E ch \in Channels : \E val \in LobbySnapshots(ch) : Deliver(ch, val)
    \/ \E ch \in Channels : ListenerError(ch)
    \/ \E module \in RoomServiceModules, writeFailure \in Failures :
          HandleStartVoting(module, writeFailure)

-----------------------------------------------------------------------------
(* validateModData applied to a value, and again to what it returned *)

\* The values validateModData is given: null, a primitive, and the objects
\* whose properties are drawn from these
ModInputs ==
    {NullModData, PrimitiveModData} \cup
    [id : {"mod1", "", Undefined},
     roomId : {"r1", NotAString},
     name : {"name", ""},
     url : {Undefined, "", "https://example.com/mod", JsTrue, JsFalse},
     description : {"desc", Undefined},
     image : {Undefined, "", "mod.png", NotAString},
     proposedBy : {"u1", Null},
     createdAt : {"2024-01-01T00:00:00.000Z", "soon", DateOf("2024-01-01T00:00:00.000Z"),
                  InvalidDate, Undefined}]

\* const result = validateModData(validMod)
ValidateMod ==
    /\ validations = <<>>
    /\ validations' = <<validateModData(modInput)>>
    /\ UNCHANGED <<rooms, playerEntries, modRecords, lastRequest, location, modInput,
                   tallyVars, retryVars, storeVars, lobbyVars>>

\* validateModData(result): the record the first call returned goes in again
Revalidate ==
    /\ Len(validations) = 1
    /\ validations[1].thrown = NoError
    /\ validations' = Append(validations, validateModData(validations[1].value))
    /\ UNCHANGED <<rooms, playerEntries, modRecords, lastRequest, location, modInput,
                   tallyVars, retryVars, storeVars, lobbyVars>>

NextValidate == ValidateMod \/ Revalidate

-----------------------------------------------------------------------------
(* The specifications *)

InitValidate ==
    /\ rooms = <<>> /\ playerEntries = <<>> /\ modRecords = NoModRecords
    /\ lastRequest = NoRequest
    /\ location = Undefined
    /\ modInput \in ModInputs
    /\ validations = <<>>
    /\ StoreIdle /\ TallyIdle /\ RetryIdle /\ LobbyIdle

SpecValidate == InitValidate /\ [][NextValidate]_vars

InitVotes == StoreIdle /\ TallyIdle /\ RetryIdle /\ LobbyIdle /\ ServiceIdle

SpecVotes == InitVotes /\ [][NextVotes]_vars

InitStore == StoreIdle /\ TallyIdle /\ RetryIdle /\ LobbyIdle /\ ServiceIdle

SpecStore == InitStore /\ [][NextStore]_vars

InitListeners == LobbyIdle /\ StoreIdle /\ TallyIdle /\ RetryIdle /\ ServiceIdle

SpecListeners == InitListeners /\ [][NextListeners]_vars

InitLobby == LobbyIdle /\ StoreIdle /\ TallyIdle /\ RetryIdle /\ ServiceIdle

SpecLobby == InitLobby /\ [][NextLobby]_vars

InitResults == InitTally /\ RetryIdle /\ StoreIdle /\ LobbyIdle /\ ServiceIdle

SpecResults == InitResults /\ [][NextTally]_vars

InitRetryCall == InitRetry /\ TallyIdle /\ StoreIdle /\ LobbyIdle /\ ServiceIdle

SpecRetry == InitRetryCall /\ [][NextRetry]_vars

InitRooms == ServiceIdle /\ StoreIdle /\ TallyIdle /\ RetryIdle /\ LobbyIdle

SpecRooms == InitRooms /\ [][NextRooms]_vars

-----------------------------------------------------------------------------
(* Claims about the tally, under SpecResults *)

\* The tally of a mod id counted directly on the input list of votes
LikesOf(id) ==
    Cardinality({i \in DOMAIN argVotes : argVotes[i].modId = id /\ argVotes[i].vote = "like"})
DislikesOf(id) ==
    Cardinality({i \in DOMAIN argVotes : argVotes[i].modId = id /\ argVotes[i].vote = "dislike"})

InputIds == {argMods[i].id : i \in DOMAIN argMods}

\* The mod ids of a bucket of calculateResults / of the ResultsPage tally
CalcIds(bucket) == {bucket[i].id : i \in DOMAIN bucket}
PageIds(bucket) == {bucket[i].mod.id : i \in DOMAIN bucket}

\* How often id occurs in the three buckets together
CalcOccurrences(id) ==
    Cardinality({i \in DOMAIN results.approved : results.approved[i].id = id})
    + Cardinality({i \in DOMAIN results.rejected : results.rejected[i].id = id})
    + Cardinality({i \in DOMAIN results.controversial : results.controversial[i].id = id})
PageOccurrences(id) ==
    Cardinality({i \in DOMAIN pageResults.approved : pageResults.approved[i].mod.id = id})
    + Cardinality({i \in DOMAIN pageResults.rejected : pageResults.rejected[i].mod.id = id})
    + Cardinality({i \in DOMAIN pageResults.controversial : pageResults.controversial[i].mod.id = id})

\* C1: the three buckets are pairwise disjoint and their union is the input
\* list of mods: every input mod is in exactly one bucket, and nothing else
\* is in any bucket. Stated of both tallies.
C1_BucketsPartitionInput ==
    /\ calcDone =>
        /\ \A id \in InputIds : CalcOccurrences(id) = 1
        /\ CalcIds(results.approved) \cup CalcIds(results.rejected)
             \cup CalcIds(results.controversial) = InputIds
    /\ pageDone =>
        /\ \A id \in InputIds : PageOccurrences(id) = 1
        /\ PageIds(pageResults.approved) \cup PageIds(pageResults.rejected)
             \cup PageIds(pageResults.controversial) = InputIds

\* C2: a mod with likes = dislikes > 0 is in controversial and in neither
\* approved nor rejected. Stated of both tallies.
C2_TieIsOnlyControversial ==
    \A id \in InputIds :
        (LikesOf(id) = DislikesOf(id) /\ LikesOf(id) > 0) =>
            /\ calcDone =>
                /\ id \in CalcIds(results.controversial)
                /\ id \notin CalcIds(results.approved)
                /\ id \notin CalcIds(results.rejected)
            /\ pageDone =>
                /\ id \in PageIds(pageResults.controversial)
                /\ id \notin PageIds(pageResults.approved)
                /\ id \notin PageIds(pageResults.rejected)

\* C3: a mod that no vote of the input references is in rejected.
\* Stated of both tallies.
C3_NoVotesIsRejected ==
    \A id \in InputIds :
        (\A i \in DOMAIN argVotes : argVotes[i].modId # id) =>
            /\ calcDone => id \in CalcIds(results.rejected)
            /\ pageDone => id \in PageIds(pageResults.rejected)

\* C4: a mod with likes > dislikes is in approved, a mod with
\* dislikes > likes is in rejected, in both tallies.
C4_MajorityDecides ==
    \A id \in InputIds :
        /\ LikesOf(id) > DislikesOf(id) =>
            /\ calcDone => id \in CalcIds(results.approved)
            /\ pageDone => id \in PageIds(pageResults.approved)
        /\ DislikesOf(id) > LikesOf(id) =>
            /\ calcDone => id \in CalcIds(results.rejected)
            /\ pageDone => id \in PageIds(pageResults.rejected)

\* C4's case: both tallies ran on an input with a mod that two votes like
\* and a mod with a majority of dislikes
C4_Witness ==
    /\ calcDone /\ pageDone
    /\ \E id \in InputIds : LikesOf(id) > DislikesOf(id) /\ LikesOf(id) >= 2
    /\ \E id \in InputIds : DislikesOf(id) > LikesOf(id)

-----------------------------------------------------------------------------
(* Claims about withRetry, under SpecRetry *)

\* A failure of a retryable kind as the unit tests raise it: a FirebaseError
\* whose code is one of config.retryableErrors
RetryableFailure(e) == e.cls = "FirebaseError" /\ e.code \in config.retryableErrors

\* A failure of a terminal kind: its code is none of config.retryableErrors
TerminalFailure(e) == e.code \notin config.retryableErrors

\* C6: when every failure is of a retryable kind, withRetry returns the
\* success value after exactly k+1 invocations if the operation failed
\* k < maxAttempts times before succeeding, and it throws only after
\* exactly maxAttempts invocations, rethrowing the last error.
C6_RetriesUntilSuccessOrExhaustion ==
    (\A i \in DOMAIN errors : RetryableFailure(errors[i])) =>
        /\ retryPc = "returned" =>
            /\ outcome = Returned("success")
            /\ Len(errors) < config.maxAttempts
            /\ calls = Len(errors) + 1
        /\ retryPc = "thrown" =>
            /\ calls = config.maxAttempts
            /\ Len(errors) = config.maxAttempts
            /\ outcome = Thrown(errors[Len(errors)])
        /\ retryPc \in {"call", "wait"} => Len(errors) < config.maxAttempts
        /\ retryPc = "call" => calls = Len(errors)

\* C6's case: two retryable failures, then success at the third invocation
\* under the default maxAttempts of 3
C6_Witness ==
    /\ retryPc = "returned"
    /\ config.maxAttempts = DEFAULT_RETRY_OPTIONS.maxAttempts
    /\ Len(errors) = 2 /\ calls = 3
    /\ \A i \in DOMAIN errors : RetryableFailure(errors[i])

\* C7: a failure of a terminal kind ends withRetry at once: no further
\* invocation, no wait after it, and that same error is thrown; when it is
\* the first failure the operation was invoked exactly once and nothing waited.
C7_TerminalFailureThrownAtOnce ==
    \A i \in DOMAIN errors :
        TerminalFailure(errors[i]) =>
            /\ i = Len(errors)
            /\ calls = i
            /\ Len(waits) = i - 1
            /\ retryPc = "thrown"
            /\ outcome = Thrown(errors[i])

\* C7's case: the first failure is permission-denied with attempts left
C7_Witness ==
    /\ retryPc = "thrown" /\ calls = 1 /\ waits = <<>>
    /\ errors = <<Err("FirebaseError", "permission-denied")>>
    /\ config.maxAttempts > 1
    /\ TerminalFailure(errors[1])

\* C8: a failure whose code is one of config.retryableErrors, with attempts
\* left, is never the one withRetry throws: another invocation follows it,
\* whatever the class of the error, the SDK's own errors included.
C8_RetryDependsOnlyOnKind ==
    \A i \in DOMAIN errors :
        (errors[i].code \in config.retryableErrors /\ i < config.maxAttempts) =>
            ~(retryPc = "thrown" /\ i = Len(errors))

\* C9: a ValidationError ends withRetry at once and is the error thrown,
\* for every maxAttempts and every retryableErrors; when it is the first
\* failure the operation was invoked exactly once.
C9_ValidationErrorNeverRetried ==
    \A i \in DOMAIN errors :
        errors[i].cls = "ValidationError" =>
            /\ i = Len(errors)
            /\ calls = i
            /\ retryPc = "thrown"
            /\ outcome = Thrown(errors[i])

\* C9's case: a ValidationError at the first of several allowed attempts,
\* under a retryableErrors list other than the default
C9_Witness ==
    /\ retryPc = "thrown" /\ calls = 1
    /\ errors = <<Err("ValidationError", Undefined)>>
    /\ config.maxAttempts > 1
    /\ config.retryableErrors # DEFAULT_RETRY_OPTIONS.retryableErrors

\* C10: the n-th wait follows the n-th failure, which is of a retryable
\* kind and not the final attempt, and lasts exactly
\* min(baseDelay * backoffFactor^(n-1), maxDelay), never more than maxDelay;
\* every retryable failure that is not the final attempt is followed by its
\* wait; nothing else waits.
C10_BackoffDelay ==
    /\ Len(waits) <= Len(errors)
    /\ \A n \in DOMAIN waits :
        /\ waits[n] = Min(config.baseDelay * (config.backoffFactor ^ (n - 1)), config.maxDelay)
        /\ waits[n] <= config.maxDelay
        /\ n < config.maxAttempts
        /\ RetryableFailure(errors[n])
    /\ \A n \in DOMAIN errors :
        (RetryableFailure(errors[n]) /\ n < config.maxAttempts) => n \in DOMAIN waits

\* C10's case: a first wait of baseDelay and a second wait that the cap cuts
C10_Witness ==
    /\ Len(waits) = 2
    /\ waits[1] = config.baseDelay /\ waits[1] < config.maxDelay
    /\ config.baseDelay * config.backoffFactor > config.maxDelay
    /\ waits[2] = config.maxDelay

-----------------------------------------------------------------------------
(* Claims about the store's vote map, under SpecVotes *)

\* C5: the vote map holds at most one vote per (user, mod) pair: a later
\* vote of the same user for the same mod replaces the earlier one and is
\* never stored beside it.
C5_OneVotePerUserAndMod ==
    \A k1, k2 \in DOMAIN votes :
        (votes[k1].userId = votes[k2].userId /\ votes[k1].modId = votes[k2].modId) => k1 = k2

-----------------------------------------------------------------------------
(* Claims about the store's mutators called directly, under SpecStore *)

StoreFields == <<user, room, mods, votes, isLoading>>

EntityMutators == {"setUser", "setRoom", "setCurrentMod", "addVote"}

\* C11: setUser, setRoom, setCurrentMod or addVote called with a malformed
\* non-null entity does not throw and leaves user, room, mods, votes and
\* isLoading as they were; the store never holds a malformed entity.
C11_MalformedEntityIsNoOp ==
    /\ [][(lastCall'.op \in EntityMutators /\ lastCall'.malformed)
            => (UNCHANGED StoreFields /\ ~threw')]_vars
    /\ [](/\ user \notin MalformedUsers
          /\ room \notin MalformedRooms
          /\ mods.current \notin MalformedMods
          /\ \A k \in DOMAIN votes : votes[k] \notin MalformedVotes)

\* A malformed room was refused while the store held a user, a room, a
\* current mod and a vote
C11_Witness ==
    /\ lastCall.op = "setRoom" /\ lastCall.malformed
    /\ user = U1 /\ room = R1 /\ mods.current = Mod("m1") /\ votes # NoVotes

\* out is the subsequence of the entries of in that pass the shape check
KeptInOrder(in, out) ==
    LET keep == {i \in 1..Len(in) : isValidMod(in[i])}
    IN  /\ Len(out) = Cardinality(keep)
        /\ \E f \in [1..Len(out) -> keep] :
              /\ \A i, j \in 1..Len(out) : i < j => f[i] < f[j]
              /\ \A i \in 1..Len(out) : out[i] = in[f[i]]

\* C12: setMods never throws; afterwards mods.proposed is empty when the
\* input is not an array, and otherwise the entries of the input that pass
\* the shape check, in their order; current and currentIndex are unchanged.
C12_SetModsKeepsValidInOrder ==
    [][lastCall'.op = "setMods" =>
         \A arg \in ModsPayloads :
            SetMods(arg) =>
               /\ ~threw'
               /\ mods'.current = mods.current
               /\ mods'.currentIndex = mods.currentIndex
               /\ IF ~IsArray(arg) THEN mods'.proposed = <<>>
                   ELSE KeptInOrder(arg.items, mods'.proposed)]_vars

\* setMods kept two of three entries while a current mod was set
C12_Witness ==
    /\ lastCall.op = "setMods" /\ lastCall.malformed
    /\ Len(mods.proposed) = 2
    /\ mods.current = Mod("m1") /\ mods.currentIndex = 1

\* C13: setLoading called with a key other than user, room, mods, or with a
\* value that is no boolean, leaves the whole store unchanged, isLoading
\* and its set of keys included.
C13_UnknownFlagOrNonBooleanIsNoOp ==
    [][(lastCall'.op = "setLoading" /\ lastCall'.malformed) => UNCHANGED StoreFields]_vars

\* C14: after any sequence of calls, resetState leaves user null, room
\* null, mods.proposed empty, current null, currentIndex 0, votes empty and
\* isLoading with exactly the flags user, room, mods, all false.
C14_ResetYieldsInitialState ==
    lastCall.op = "resetState" =>
        /\ user = NoUser /\ room = NoRoom
        /\ mods.proposed = <<>> /\ mods.current = NoMod /\ mods.currentIndex = 0
        /\ DOMAIN votes = {}
        /\ DOMAIN isLoading = {"user", "room", "mods"}
        /\ \A k \in DOMAIN isLoading : isLoading[k] = FALSE

\* resetState ran on a store that had left its initial state
C14_Witness == lastCall.op = "resetState" /\ lastCall.dirty

\* C15: every stored vote's modId is the id of a mod of mods.proposed, and
\* that mod's roomId is the vote's roomId.
C15_VotesReferToProposedMods ==
    \A k \in DOMAIN votes :
        \E i \in 1..Len(mods.proposed) :
            /\ mods.proposed[i].id = votes[k].modId
            /\ mods.proposed[i].roomId = votes[k].roomId

-----------------------------------------------------------------------------
(* Claims about the listeners, under SpecListeners *)

\* The arguments of a subscribe call are a non-empty string and a function
ArgsOk(s) == IsString(s.roomId) /\ s.roomId # "" /\ IsFunction(s.callback)

\* C16: onPlayersChanged and onModsChanged return an unsubscribe function,
\* also when setting up the listener fails, and no call of that function
\* throws, however often it is called and also when off() fails.
C16_UnsubscribeAlwaysReturnedNeverThrows ==
    \A ch \in Channels :
        /\ (sub[ch] # NoSub /\ ArgsOk(sub[ch]))
              => (sub[ch].returned = "function" /\ sub[ch].thrown = NoError)
        /\ sub[ch].returned = "function" => sub[ch].cleanup \in {"off", "noop"}
        /\ ~sub[ch].unsubThrew

\* The setup failed and the function that was returned was called twice
C16_Witness ==
    \E ch \in Channels :
        /\ ArgsOk(sub[ch]) /\ sub[ch].cleanup = "noop"
        /\ sub[ch].unsubCalls >= 2

\* C17: onPlayersChanged and onModsChanged called with an empty or
\* non-string roomId, or with a callback that is no function, throw a
\* ValidationError to the caller.
C17_InvalidArgumentsThrow ==
    \A ch \in Channels :
        (sub[ch] # NoSub /\ ~ArgsOk(sub[ch])) => sub[ch].thrown.cls = "ValidationError"

\* The record e of a channel passes validation
Passes(ch, e) ==
    IF ch = "players" THEN validatePlayerData(e.data, e.id).thrown = NoError
    ELSE validateModData(WithId(e.id, e.data)).thrown = NoError

\* The record as the callback is given it
Delivered(ch, e) ==
    IF ch = "players" THEN PlayerOf(e.id, validatePlayerData(e.data, e.id).value)
    ELSE validateModData(WithId(e.id, e.data)).value

\* C18: for every snapshot, the callback is called with exactly the records
\* that pass validation, in the snapshot's order; an invalid record is
\* dropped, and the handler throws only when the callback itself throws.
C18_ValidRecordsDelivered ==
    lastDelivery.kind = "snapshot" =>
        LET entries == lastDelivery.snapshot.entries
            keep == {i \in 1..Len(entries) : Passes(lastDelivery.channel, entries[i])}
            out == lastDelivery.invoked[1]
        IN  /\ Len(lastDelivery.invoked) >= 1
            /\ ~callbackThrows(sub[lastDelivery.channel].callback)
                  => Len(lastDelivery.invoked) = 1
            /\ Len(out) = Cardinality(keep)
            /\ \E f \in [1..Len(out) -> keep] :
                  /\ \A i, j \in 1..Len(out) : i < j => f[i] < f[j]
                  /\ \A i \in 1..Len(out) : out[i] = Delivered(lastDelivery.channel, entries[f[i]])
            /\ lastDelivery.threw => sub[lastDelivery.channel].callback = FaultyFn

\* A snapshot with an invalid record before a valid one was handled: the
\* valid one reached a callback that does not throw
C18_Witness ==
    /\ lastDelivery.kind = "snapshot"
    /\ Len(lastDelivery.snapshot.entries) = 2
    /\ ~Passes(lastDelivery.channel, lastDelivery.snapshot.entries[1])
    /\ Passes(lastDelivery.channel, lastDelivery.snapshot.entries[2])
    /\ Len(lastDelivery.invoked) = 1 /\ Len(lastDelivery.invoked[1]) = 1
    /\ ~lastDelivery.threw

\* C19: when the callback given to onPlayersChanged throws while a snapshot
\* is delivered, no exception leaves the snapshot handler, and the
\* unsubscribe function still works.
C19_CallbackExceptionContained ==
    /\ (lastDelivery.channel = "players" /\ lastDelivery.kind = "snapshot") => ~lastDelivery.threw
    /\ ~sub["players"].unsubThrew

-----------------------------------------------------------------------------
(* Claim about the Lobby, under SpecLobby *)

\* C20: once the Lobby is unmounted, a players or mods callback that fires
\* makes no store call (setRoom, setMods, setLoading) and the store's fields
\* keep their values, in every interleaving of deliveries and unmount.
C20_NoStoreCallAfterUnmount ==
    /\ [](lastDelivery.unmounted => lastDelivery.storeCalls = <<>>)
    /\ [][lobbyPc = "unmounted" => UNCHANGED StoreFields]_vars

\* After the unmount the mods listener, still registered, handled a
\* snapshot and called the Lobby's callback with a mod
C20_Witness ==
    /\ lobbyPc = "unmounted"
    /\ lastDelivery.unmounted /\ lastDelivery.channel = "mods"
    /\ Len(lastDelivery.invoked) = 1 /\ Len(lastDelivery.invoked[1]) = 1
    /\ sub["mods"].callback = LobbyModsFn
    /\ isLoading["mods"]

-----------------------------------------------------------------------------
(* Further claims about the tally, under SpecResults *)

\* The sequence s is in non-increasing order of key(s[i])
NonIncreasing(s, key(_)) == \A i, j \in 1..Len(s) : i < j => key(s[i]) >= key(s[j])

\* C25: in both tallies approved is in non-increasing order of likes,
\* rejected of dislikes, and controversial of total (likes + dislikes).
C25_BucketsSortedDescending ==
    /\ calcDone =>
        /\ NonIncreasing(results.approved, LAMBDA r : r.likes)
        /\ NonIncreasing(results.rejected, LAMBDA r : r.dislikes)
        /\ NonIncreasing(results.controversial, LAMBDA r : r.total)
        /\ \A i \in DOMAIN results.controversial :
              results.controversial[i].total
                 = results.controversial[i].likes + results.controversial[i].dislikes
    /\ pageDone =>
        /\ NonIncreasing(pageResults.approved, LAMBDA r : r.likes)
        /\ NonIncreasing(pageResults.rejected, LAMBDA r : r.dislikes)
        /\ NonIncreasing(pageResults.controversial, LAMBDA r : r.likes + r.dislikes)

\* Both tallies ran on a list whose second mod has more likes than its
\* first, both approved: the sort has moved it to the front
C25_Witness ==
    /\ calcDone /\ pageDone
    /\ Len(argMods) = 2
    /\ LikesOf(argMods[2].id) > LikesOf(argMods[1].id)
    /\ Len(results.approved) = 2 /\ results.approved[1].id = argMods[2].id
    /\ Len(pageResults.approved) = 2 /\ pageResults.approved[1].mod.id = argMods[2].id

\* The entries of all three buckets of a tally
CalcEntries ==
    {results.approved[i] : i \in DOMAIN results.approved}
        \cup {results.rejected[i] : i \in DOMAIN results.rejected}
        \cup {results.controversial[i] : i \in DOMAIN results.controversial}
PageEntries ==
    {pageResults.approved[i] : i \in DOMAIN pageResults.approved}
        \cup {pageResults.rejected[i] : i \in DOMAIN pageResults.rejected}
        \cup {pageResults.controversial[i] : i \in DOMAIN pageResults.controversial}

\* The input votes that reference a mod of the input
KnownVotes == SelectSeq(argVotes, LAMBDA v : v.modId \in InputIds)

\* C26: every input mod is reported, and the likes and dislikes reported
\* for a mod are the numbers of input votes with its id and the decision
\* like, dislike; votes that reference no input mod change nothing.
C26_CountsMatchBallots ==
    /\ calcDone =>
        /\ InputIds = {r.id : r \in CalcEntries}
        /\ \A r \in CalcEntries : r.likes = LikesOf(r.id) /\ r.dislikes = DislikesOf(r.id)
        /\ results = calculateResults(argMods, KnownVotes)
    /\ pageDone =>
        /\ InputIds = {r.mod.id : r \in PageEntries}
        /\ \A r \in PageEntries :
              r.likes = LikesOf(r.mod.id) /\ r.dislikes = DislikesOf(r.mod.id)
        /\ pageResults = ResultsPageTally(argMods, KnownVotes)

\* Both tallies ran on votes of which one likes a mod, one dislikes
\* another and one references no input mod
C26_Witness ==
    /\ calcDone /\ pageDone
    /\ Len(argMods) = 2
    /\ \E id \in InputIds : LikesOf(id) = 1 /\ DislikesOf(id) = 0
    /\ \E id \in InputIds : DislikesOf(id) = 1 /\ LikesOf(id) = 0
    /\ Len(KnownVotes) < Len(argVotes)

\* The vote at position i is the last the input holds of its user for its mod
IsLastBallot(i) ==
    \A j \in DOMAIN argVotes :
        (argVotes[j].userId = argVotes[i].userId /\ argVotes[j].modId = argVotes[i].modId)
            => j <= i

\* The number of users whose last vote for the mod id is d
LastBallotsOf(id, d) ==
    Cardinality({i \in DOMAIN argVotes :
                    IsLastBallot(i) /\ argVotes[i].modId = id /\ argVotes[i].vote = d})

\* C27: when the input holds several votes of one user for one mod, only
\* the last of them counts in that mod's likes and dislikes.
C27_LastBallotCounts ==
    /\ calcDone =>
        \A r \in CalcEntries :
            r.likes = LastBallotsOf(r.id, "like") /\ r.dislikes = LastBallotsOf(r.id, "dislike")
    /\ pageDone =>
        \A r \in PageEntries :
            /\ r.likes = LastBallotsOf(r.mod.id, "like")
            /\ r.dislikes = LastBallotsOf(r.mod.id, "dislike")

-----------------------------------------------------------------------------
(* Claims about the services' requests, under SpecRooms *)

\* C21: joinRoom with a room code that has no room document rejects and
\* writes no player entry; when its arguments are valid and getDoc answers,
\* it rejects with the ValidationError 'Room not found'.
C21_JoinMissingRoomFails ==
    [][(lastRequest'.op = "joinRoom" /\ DocOf(rooms, lastRequest'.roomId) = NoDoc)
          => /\ lastRequest'.error # NoFailure
             /\ playerEntries' = playerEntries
             /\ (lastRequest'.argsOk /\ lastRequest'.answered)
                   => lastRequest'.error = ValidationFailure("Room not found")]_vars

\* A joinRoom call failed with 'Room not found' while another room exists
\* that a player had joined: no entry is held for any other room code
C21_Witness ==
    /\ lastRequest.op = "joinRoom"
    /\ lastRequest.error = ValidationFailure("Room not found")
    /\ lastRequest.roomId = "r2"
    /\ DOMAIN rooms = {"r1"}
    /\ <<"r1", "u2">> \in DOMAIN playerEntries
    /\ \A k \in DOMAIN playerEntries : k[1] = "r1"

\* C22: createRoom never uses the code of an existing room: a createRoom
\* call leaves every existing room document as it was.
C22_CreateRoomKeepsExistingRooms ==
    [][lastRequest'.op = "createRoom" =>
         \A code \in DOMAIN rooms : code \in DOMAIN rooms' /\ rooms'[code] = rooms[code]]_vars

C24_ValidateIdempotent ==
    Len(validations) = 2
       => /\ validations[2].thrown = NoError
          /\ \A f \in DOMAIN validations[1].value :
                validations[2].value[f] = validations[1].value[f]
          /\ DOMAIN validations[2].value = DOMAIN validations[1].value

\* A record with an ISO string createdAt and an empty url was validated twice:
\* the first result differs from the input, the second call got a Date
C24_Witness ==
    /\ Len(validations) = 2
    /\ modInput.createdAt = "2024-01-01T00:00:00.000Z"
    /\ modInput.url = ""
    /\ validations[1].value.createdAt = DateOf("2024-01-01T00:00:00.000Z")
    /\ validations[1].value.url = Undefined

-----------------------------------------------------------------------------
(* Further claims about the Lobby, under SpecLobby *)

\* The list the players listener hands to the Lobby's callback for a snapshot
PushedPlayers(val) == handleSnapshot("players", LobbyPlayersFn, val).invoked[1]

\* C28: a players push delivered to the mounted Lobby while the store holds a
\* room makes the stored room's players the pushed list and leaves every
\* other field of the room as it was.
C28_PlayersPushReplacesList ==
    [][\A val \in LobbySnapshots("players") :
          (Deliver("players", val) /\ isMounted /\ room # NoRoom)
             => room' = [room EXCEPT !.players = JsArray(PushedPlayers(val))]]_vars

\* C29: the host starts voting with at least one proposed mod, the room being
\* in lobby status and the backend not failing: the room's status becomes
\* voting and the client is at the swipe page.
C29_StartVotingReachesVoting ==
    [][\A module \in RoomServiceModules :
          (/\ HandleStartVoting(module, NoFailure)
           /\ Len(mods.proposed) > 0
           /\ Truthy(LobbyRoomId)
           /\ DocOf(rooms, LobbyRoomId).status = "lobby")
             => /\ DocOf(rooms', LobbyRoomId).status = "voting"
                /\ location' = SwipePath(LobbyRoomId)]_vars

\* C30: once the Lobby is unmounted and the callback of Promise.all(...).then
\* has run, the unsubscribe function of each subscription the effect set up
\* has been called.
C30_UnmountUnsubscribesBoth ==
    (lobbyPc = "unmounted" /\ ~thenPending)
       => \A ch \in Channels : sub[ch] # NoSub => sub[ch].unsubCalls >= 1

====
